---- MODULE Spec2Model ----
(***************************************************************************)
(* Batch-job store, batch handlers and the answering loop of the RFI        *)
(* assistant (netlify/functions).                                           *)
(*                                                                          *)
(*   Spec      : the batch endpoints as deployed: batch-start,              *)
(*               batch-background, batch-status.                            *)
(*   FairSpec  : Spec with the POST to batch-background delivered and the   *)
(*               handlers scheduled fairly.                                 *)
(*   SpecStore : the Job Store operations of _shared/job-store.ts under two *)
(*               concurrent callers: createJob, and the read-modify-write   *)
(*               operations updateJob and addResult, whose read (getJob)    *)
(*               and write (store.setJSON) are separate awaits.             *)
(*   SpecOrch  : the batch-background handler from line 29 on with `job`    *)
(*               bound to the stored record, i.e. its question loop and the *)
(*               store calls it issues without awaiting them.               *)
(*   SpecAsk   : one askQuestion call of _shared/notion-tools.ts against    *)
(*               any provider response and any tool behaviour.              *)
(*   SpecSweep : the Job Store with cleanupOldJobs run from call to return  *)
(*               between the store calls of the job traffic.                *)
(*   SpecCleanup : the same with the list, get and delete awaits of         *)
(*               cleanupOldJobs interleaved with updateJob and addResult.   *)
(*   SpecCreate : createJob called repeatedly, in one millisecond or more.  *)
(*   SpecCite  : askQuestion answered by a final response of any text: the  *)
(*               answer and the citations it returns.                       *)
(*   SpecTools : processToolCall applied to every tool name and input.      *)
(*   SpecRouter : one processToolCall call against every behaviour of the   *)
(*               remote workspace and the docs folder.                      *)
(*   SpecContext : the question loop of batch-background for jobs with and  *)
(*               without contexts and instructions.                         *)
(*   SpecUpdate : updateJob with any fields, for ids with and without a     *)
(*               record, under two concurrent callers.                      *)
(*   SpecIndex : searchLocalIndex on every snapshot, query and limit.       *)
(*   SpecPairs : searchQAPairs on every list of stored pairs and query.     *)
(*   SpecLoad  : loadSearchIndex and loadFullIndex called repeatedly while  *)
(*               the candidate locations gain and lose their files.         *)
(*   SpecIdentity : one job under the handler's updateJob and addResult    *)
(*               calls, two at a time.                                     *)
(*   SpecRead  : updateJob and addResult over a store whose reads may throw.*)
(*   SpecPage  : getLocalPage on every snapshot and identifier, twice.      *)
(*   SpecBatch : the synchronous POST /api/batch handler and its loop.      *)
(*   SpecApi   : the six endpoints that do work, under any request.         *)
(***************************************************************************)
EXTENDS Integers, Sequences, FiniteSets, TLC

(* ------------------------------- bounds -------------------------------- *)
MaxTime == 1
MaxQuestions == 3
MaxResults == 3
MaxBlocks == 2
MaxCalls == 2
MaxJobs == 2
MaxMinutes == 122
MaxMatched == 6
MaxListPages == 2
MaxPieces == 2
MaxPairs == 2

(* ------------------------------ data ----------------------------------- *)
\* job-store.ts:9  status: 'pending' | 'processing' | 'completed' | 'failed'
Statuses == {"pending", "processing", "completed", "failed"}

\* an absent optional field (instructions?, error?, context?)
Undefined == "undefined"

\* `if (v)`, `v || ...` for an optional string: undefined and the empty
\* string are falsy
Truthy(v) == v # Undefined /\ v # ""

\* what getJob returns for a key without a record
Null == [null |-> TRUE]

\* ids the client gives its questions
QIds == {"q1", "q2", "q3", "q4"}

\* job-store.ts:10  questions: Array<{ id; question; context? }>
Question(qid) == [id |-> qid, question |-> "text", context |-> Undefined]

RECURSIVE FirstQuestions(_)
FirstQuestions(n) ==
    IF n = 0 THEN << >>
    ELSE Append(FirstQuestions(n - 1),
                Question(IF n = 1 THEN "q1" ELSE IF n = 2 THEN "q2"
                         ELSE IF n = 3 THEN "q3" ELSE "q4"))

\* the question arrays a client submits: non-empty (batch-start.ts:55)
QuestionLists == { FirstQuestions(n) : n \in 1..MaxQuestions }

\* the random part of a job id: Math.random().toString(36).slice(2, 8)
Rands == {"r1"}

\* job-store.ts:38  id: `job_${Date.now()}_${Math.random()...}`
JobId(t, r) == << "job", t, r >>

JobIds == { JobId(t, r) : t \in 0..MaxTime, r \in Rands }

\* batch-background.ts:55-60: the result appended when askQuestion returned
OkResult(q) ==
    [id |-> q.id, question |-> q.question, answer |-> "answer",
     citations |-> << "cite" >>, error |-> Undefined]

\* batch-background.ts:65-71: the result appended when askQuestion threw
ErrResult(q) ==
    [id |-> q.id, question |-> q.question, answer |-> "",
     citations |-> << >>, error |-> "message"]

VARIABLES
    store,      \* the 'batch-jobs' blob store: key -> BatchJob
    now,        \* Date.now()
    rmw,        \* the updateJob / addResult calls in flight, by call site
    orch,       \* the batch-background invocation inside its question loop
    triggers,   \* job ids whose POST to batch-background is in flight
    held,       \* job ids batch-start has returned to a client (202)
    http,       \* the last response a handler returned
    ask,        \* one askQuestion call: its transcript, trace and position
    mem         \* what the functions keep in memory between calls: qaPairs,
                \* the loaded searchIndex and fullIndex, what the last
                \* load did, and the job ids of getJob's error log

storeVars == << store, now >>
progVars == << orch, triggers, held, http, ask, mem >>
vars == << store, now, rmw, orch, triggers, held, http, ask, mem >>

(* --------------------------- job-store.ts ------------------------------ *)
\* Math.round(x) for a non-negative rational x = num / den: floor(x + 1/2)
MathRound(num, den) == (2 * num + den) \div (2 * den)

\* the write has not landed when the caller goes on
SetJSONNotAwaited(s, key, value) == s

\* store.setJSON(key, value)
SetJSON(s, key, value) ==
    [k \in (DOMAIN s) \cup {key} |-> IF k = key THEN value ELSE s[k]]

\* getJob: store.get(id, { type: 'json' }), null when there is no record
GetJob(s, id) == IF id \in DOMAIN s THEN s[id] ELSE Null

\* createJob: the record built at job-store.ts:37-46
NewJob(t, r, questions, instructions) ==
    [id |-> JobId(t, r),
     status |-> "pending",
     questions |-> questions,
     instructions |-> instructions,
     results |-> << >>,
     progress |-> 0,
     error |-> Undefined,
     createdAt |-> t,
     updatedAt |-> t]

\* Object.assign(job, { updatedAt: Date.now() }, updates): the given fields
\* are assigned last
AssignUpdatesLast(job, updates, t) ==
    [f \in DOMAIN job |->
        IF f \in DOMAIN updates THEN updates[f]
        ELSE IF f = "updatedAt" THEN t
        ELSE job[f]]

\* updateJob: Object.assign(job, updates, { updatedAt: Date.now() })
AssignUpdates(job, updates, t) ==
    [f \in DOMAIN job |->
        IF f = "updatedAt" THEN t
        ELSE IF f \in DOMAIN updates THEN updates[f]
        ELSE job[f]]

\* Math.floor in place of Math.round
ProgressFloor(nResults, nQuestions) == (nResults * 100) \div nQuestions

\* addResult, job-store.ts:91
Progress(nResults, nQuestions) == MathRound(nResults * 100, nQuestions)

\* an addResult that also takes the answered question off the job
PushResultShift(job, result, t) ==
    LET results == Append(job.results, result)
    IN [job EXCEPT
          !.results = results,
          !.questions = Tail(job.questions),
          !.progress = Progress(Len(results), Len(job.questions)),
          !.updatedAt = t,
          !.status = IF Len(results) = Len(job.questions)
                     THEN "completed" ELSE job.status]

\* addResult, job-store.ts:90-96: push, recompute progress, flip to completed
PushResult(job, result, t) ==
    LET results == Append(job.results, result)
    IN [job EXCEPT
          !.results = results,
          !.progress = Progress(Len(results), Len(job.questions)),
          !.updatedAt = t,
          !.status = IF Len(results) = Len(job.questions)
                     THEN "completed" ELSE job.status]

\* the updates the repository passes to updateJob (batch-background.ts:37,76)
UpdateArgs == { [status |-> "processing"], [status |-> "completed"] }

\* results of the two shapes the repository passes to addResult
\* (batch-background.ts:55,65)
ResultArgs == { OkResult(Question("q1")), ErrResult(Question("q2")) }

\* two concurrent callers of the store, each with at most one call in flight
Callers == { << "caller", 1 >>, << "caller", 2 >> }

\* the store calls of batch-background.ts: updateJob at lines 37 and 76,
\* addResult at line 55 or 65 for the i-th question
Line37 == << "line", 37 >>
Line76 == << "line", 76 >>
AddResultCall(i) == << "question", i >>
OrchCalls == { Line37, Line76 } \cup { AddResultCall(i) : i \in 1..MaxQuestions }

Idle == [op |-> "idle"]

\* a call that has started and awaits getJob
Called(op, id, arg) == [op |-> op, id |-> id, arg |-> arg, read |-> FALSE, job |-> Null]

\* createJob(questions, instructions): build the record, await store.setJSON
createJob(questions, instructions, r) ==
    /\ store' = SetJSON(store, JobId(now, r), NewJob(now, r, questions, instructions))
    /\ UNCHANGED << now, rmw, progVars >>

\* updateJob(id, updates) is called: job-store.ts:66-72, up to `await getJob`
updateJob(c, id, updates) ==
    /\ rmw[c] = Idle
    /\ rmw' = [rmw EXCEPT ![c] = Called("updateJob", id, updates)]
    /\ UNCHANGED << storeVars, progVars >>

\* addResult(jobId, result) is called: job-store.ts:81-87, up to `await getJob`
addResult(c, id, result) ==
    /\ rmw[c] = Idle
    /\ rmw' = [rmw EXCEPT ![c] = Called("addResult", id, result)]
    /\ UNCHANGED << storeVars, progVars >>

\* `const job = await getJob(id); if (!job) return null;` of either call
getJobReturns(c) ==
    /\ rmw[c] # Idle
    /\ ~rmw[c].read
    /\ rmw' = [rmw EXCEPT ![c] =
                 IF GetJob(store, rmw[c].id) = Null THEN Idle
                 ELSE [rmw[c] EXCEPT !.read = TRUE, !.job = GetJob(store, rmw[c].id)]]
    /\ UNCHANGED << storeVars, progVars >>

\* updateJob from Object.assign to `await store.setJSON(id, job)`
updateJobWrite(c) ==
    /\ rmw[c] # Idle
    /\ rmw[c].op = "updateJob"
    /\ rmw[c].read
    /\ store' = SetJSON(store, rmw[c].id, AssignUpdates(rmw[c].job, rmw[c].arg, now))
    /\ rmw' = [rmw EXCEPT ![c] = Idle]
    /\ UNCHANGED << now, progVars >>

\* addResult from job.results.push to `await store.setJSON(jobId, job)`
addResultWrite(c) ==
    /\ rmw[c] # Idle
    /\ rmw[c].op = "addResult"
    /\ rmw[c].read
    /\ store' = SetJSON(store, rmw[c].id, PushResult(rmw[c].job, rmw[c].arg, now))
    /\ rmw' = [rmw EXCEPT ![c] = Idle]
    /\ UNCHANGED << now, progVars >>

(* ------------------------ job-store.ts cleanupOldJobs ------------------- *)
\* job-store.ts:106  60 * 60 * 1000
RetentionMs == 3600000

\* a retention window of two hours
twoHoursAgo(t) == t - 2 * RetentionMs

\* job-store.ts:106  const oneHourAgo = Date.now() - 60 * 60 * 1000
oneHourAgo(t) == t - RetentionMs

\* job-store.ts:112  job && job.updatedAt < oneHourAgo
IsOld(job, threshold) == job # Null /\ job.updatedAt < threshold

\* store.delete(key)
Delete(s, key) == [k \in (DOMAIN s) \ {key} |-> s[k]]

\* job-store.ts:110-116, the loop over the listed blobs with no other store
\* call in between: get each, delete the old ones
RECURSIVE CleanupBlobs(_, _, _)
CleanupBlobs(s, blobs, threshold) ==
    IF blobs = {} THEN s
    ELSE LET key == CHOOSE k \in blobs : TRUE
         IN CleanupBlobs(IF IsOld(GetJob(s, key), threshold) THEN Delete(s, key) ELSE s,
                         blobs \ {key}, threshold)

\* the keys the loop deletes and logs (job-store.ts:114)
CleanedUp(s, blobs, threshold) == { k \in blobs : IsOld(GetJob(s, k), threshold) }

\* the call site of cleanupOldJobs
Sweeper == << "cleanup", 0 >>

\* no cleanupOldJobs call is running: none was made, or the last has returned
NotSweeping == IF rmw[Sweeper] = Idle THEN TRUE ELSE rmw[Sweeper].pc = "returned"

\* cleanupOldJobs() run from call to return with no other store call in between
cleanupOldJobs ==
    /\ NotSweeping
    /\ store' = CleanupBlobs(store, DOMAIN store, oneHourAgo(now))
    /\ rmw' = [rmw EXCEPT ![Sweeper] =
                  [op |-> "cleanupOldJobs", pc |-> "returned",
                   oneHourAgo |-> oneHourAgo(now),
                   log |-> CleanedUp(store, DOMAIN store, oneHourAgo(now))]]
    /\ UNCHANGED << now, progVars >>

\* cleanupOldJobs() is called: job-store.ts:104-109, up to `await store.list()`
cleanupCalled ==
    /\ NotSweeping
    /\ rmw' = [rmw EXCEPT ![Sweeper] =
                  [op |-> "cleanupOldJobs", pc |-> "list",
                   oneHourAgo |-> oneHourAgo(now), blobs |-> {}, key |-> Null,
                   log |-> {}]]
    /\ UNCHANGED << storeVars, progVars >>

\* `const { blobs } = await store.list()` resolves
cleanupList ==
    /\ rmw[Sweeper] # Idle
    /\ rmw[Sweeper].pc = "list"
    /\ rmw' = [rmw EXCEPT ![Sweeper] =
                  IF DOMAIN store = {}
                  THEN [op |-> "cleanupOldJobs", pc |-> "returned",
                        oneHourAgo |-> rmw[Sweeper].oneHourAgo, log |-> {}]
                  ELSE [rmw[Sweeper] EXCEPT !.pc = "get", !.blobs = DOMAIN store]]
    /\ UNCHANGED << storeVars, progVars >>

\* one `await store.get(blob.key, { type: 'json' })` resolves and line 112
\* decides: the blob is to be deleted, or the loop moves on
cleanupGet(key) ==
    /\ rmw[Sweeper] # Idle
    /\ rmw[Sweeper].pc = "get"
    /\ key \in rmw[Sweeper].blobs
    /\ rmw' = [rmw EXCEPT ![Sweeper] =
                  IF IsOld(GetJob(store, key), rmw[Sweeper].oneHourAgo)
                  THEN [rmw[Sweeper] EXCEPT !.pc = "delete", !.key = key]
                  ELSE IF rmw[Sweeper].blobs = {key}
                  THEN [op |-> "cleanupOldJobs", pc |-> "returned",
                        oneHourAgo |-> rmw[Sweeper].oneHourAgo,
                        log |-> rmw[Sweeper].log]
                  ELSE [rmw[Sweeper] EXCEPT !.blobs = rmw[Sweeper].blobs \ {key}]]
    /\ UNCHANGED << storeVars, progVars >>

\* `await store.delete(blob.key)` resolves and the key is logged
cleanupDelete ==
    /\ rmw[Sweeper] # Idle
    /\ rmw[Sweeper].pc = "delete"
    /\ store' = Delete(store, rmw[Sweeper].key)
    /\ rmw' = [rmw EXCEPT ![Sweeper] =
                  IF rmw[Sweeper].blobs = {rmw[Sweeper].key}
                  THEN [op |-> "cleanupOldJobs", pc |-> "returned",
                        oneHourAgo |-> rmw[Sweeper].oneHourAgo,
                        log |-> rmw[Sweeper].log \cup {rmw[Sweeper].key}]
                  ELSE [rmw[Sweeper] EXCEPT
                           !.pc = "get", !.key = Null,
                           !.blobs = rmw[Sweeper].blobs \ {rmw[Sweeper].key},
                           !.log = rmw[Sweeper].log \cup {rmw[Sweeper].key}]]
    /\ UNCHANGED << now, progVars >>

\* one minute, in the milliseconds of Date.now()
Minute == 60 * 1000

\* the time that passes between two store calls
Durations == { 59 * Minute, 61 * Minute }

\* time passes
Elapse(d) ==
    /\ now + d <= MaxMinutes * Minute
    /\ now' = now + d
    /\ UNCHANGED << store, rmw, progVars >>

\* the clock advances
Tick ==
    /\ now < MaxTime
    /\ now' = now + 1
    /\ UNCHANGED << store, rmw, progVars >>

NoResponse == [fn |-> "none"]

\* `let searchIndex = null`, `let fullIndex = null` (system-prompt.ts:164-165),
\* and the empty snapshot a load returns when it finds no file
NotLoaded == [loaded |-> FALSE, from |-> 0, pages |-> << >>]

\* no load has been called
NoLoad == [fn |-> "none", exists |-> {}, returned |-> NotLoaded, read |-> 0]

NotRunning == [pc |-> "idle"]

\* no provider response yet
NoMessage == [content |-> << >>, stop_reason |-> "none"]

\* before askQuestion is called
NotAsked ==
    [pc |-> "idle", messages |-> << >>, response |-> NoMessage,
     searches |-> << >>, results |-> << >>, calls |-> 0, result |-> Undefined]

Init ==
    /\ store = << >>
    /\ now = 0
    /\ rmw = [c \in Callers \cup OrchCalls \cup {Sweeper} |-> Idle]
    /\ orch = NotRunning
    /\ triggers = {}
    /\ held = {}
    /\ http = NoResponse
    /\ ask = NotAsked
    /\ mem = [qaPairs |-> << >>, searchIndex |-> NotLoaded,
              fullIndex |-> NotLoaded, last |-> NoLoad, errors |-> {}]

\* the stored results stay within the model's bound
ResultsBelowBound(c) ==
    (rmw[c] # Idle /\ rmw[c].op = "addResult" /\ rmw[c].id \in DOMAIN store)
        => Len(store[rmw[c].id].results) < MaxResults

\* the Job Store under two concurrent callers; Math.random draws a value that
\* no stored job of this millisecond carries
NextStore ==
    \/ \E qs \in QuestionLists, r \in Rands :
          /\ JobId(now, r) \notin DOMAIN store
          /\ createJob(qs, Undefined, r)
    \/ \E c \in Callers, id \in JobIds, u \in UpdateArgs : updateJob(c, id, u)
    \/ \E c \in Callers, id \in JobIds, res \in ResultArgs : addResult(c, id, res)
    \/ \E c \in Callers : ResultsBelowBound(c) /\ getJobReturns(c)
    \/ \E c \in Callers : updateJobWrite(c)
    \/ \E c \in Callers : addResultWrite(c)

SpecStore == Init /\ [][NextStore]_vars

\* fields a caller may give updateJob (Partial<BatchJob>): a status, or a
\* status with an error and an updatedAt of its own
UpdateFields ==
    { [status |-> "processing"],
      [status |-> "failed", error |-> "message", updatedAt |-> 0] }

\* updateJob under two concurrent callers, for ids with and without a record
NextUpdate ==
    \/ \E r \in Rands :
          /\ JobId(now, r) \notin DOMAIN store
          /\ createJob(FirstQuestions(1), Undefined, r)
    \/ \E c \in Callers, id \in JobIds, u \in UpdateFields : updateJob(c, id, u)
    \/ \E c \in Callers : getJobReturns(c)
    \/ \E c \in Callers : updateJobWrite(c)
    \/ Tick

SpecUpdate == Init /\ [][NextUpdate]_vars

\* the rejection of store.get(id, { type: 'json' })
Rejected == [rejected |-> TRUE]

\* `await store.get(id, { type: 'json' })` (job-store.ts:57): the record or
\* null, or the read throws
storeGet(s, id, throws) == IF throws THEN Rejected ELSE GetJob(s, id)

\* a getJob that reads again when the read has thrown
getJobRetrying(s, id, throws) == GetJob(s, id)

\* getJob (job-store.ts:53-64): what the read returned, null from the catch
getJob(s, id, throws) ==
    IF storeGet(s, id, throws) = Rejected THEN Null ELSE storeGet(s, id, throws)

\* `const job = await getJob(id); if (!job) return null;` of updateJob and
\* addResult, with a read that returns or throws; mem.errors keeps the ids
\* of the console.error lines of getJob's catch (job-store.ts:60)
getJobSettles(c, throws) ==
    /\ rmw[c] # Idle
    /\ ~rmw[c].read
    /\ rmw' = [rmw EXCEPT ![c] =
                 IF getJob(store, rmw[c].id, throws) = Null THEN Idle
                 ELSE [rmw[c] EXCEPT !.read = TRUE,
                                     !.job = getJob(store, rmw[c].id, throws)]]
    /\ mem' = IF storeGet(store, rmw[c].id, throws) = Rejected
              THEN [mem EXCEPT !.errors = @ \cup { rmw[c].id }]
              ELSE mem
    /\ UNCHANGED << storeVars, orch, triggers, held, http, ask >>

\* updateJob and addResult under two concurrent callers, for the id of a
\* stored job and for ids without a record, over a store whose reads may
\* throw
NextRead ==
    \/ \E r \in Rands :
          /\ store = << >>
          /\ createJob(FirstQuestions(1), Undefined, r)
    \/ \E c \in Callers, id \in JobIds : updateJob(c, id, [status |-> "processing"])
    \/ \E c \in Callers, id \in JobIds :
          addResult(c, id, OkResult(Question("q1")))
    \/ \E c \in Callers, throws \in BOOLEAN :
          ResultsBelowBound(c) /\ getJobSettles(c, throws)
    \/ \E c \in Callers : updateJobWrite(c)
    \/ \E c \in Callers : addResultWrite(c)

SpecRead == Init /\ [][NextRead]_vars

\* the caller whose updateJob / addResult calls run beside cleanupOldJobs
Updater == << "caller", 1 >>

\* job traffic for cleanupOldJobs to meet: jobs of one question are created,
\* updated and given results, and time passes
Traffic ==
    \/ \E r \in Rands :
          /\ JobId(now, r) \notin DOMAIN store
          /\ Cardinality(DOMAIN store) < MaxJobs
          /\ createJob(FirstQuestions(1), Undefined, r)
    \/ \E id \in DOMAIN store : updateJob(Updater, id, [status |-> "processing"])
    \/ \E id \in DOMAIN store :
          /\ Len(store[id].results) < 1
          /\ addResult(Updater, id, OkResult(Question("q1")))
    \/ getJobReturns(Updater)
    \/ updateJobWrite(Updater)
    \/ addResultWrite(Updater)
    \/ \E d \in Durations : Elapse(d)

\* cleanupOldJobs called between the store calls of the job traffic, never
\* during one
NextSweep ==
    \/ Traffic
    \/ rmw[Updater] = Idle /\ cleanupOldJobs

SpecSweep == Init /\ [][NextSweep]_vars

\* cleanupOldJobs running concurrently with the job traffic: its list, get
\* and delete awaits interleave with those of updateJob and addResult
NextCleanup ==
    \/ Traffic
    \/ cleanupCalled
    \/ cleanupList
    \/ \E key \in DOMAIN store : cleanupGet(key)
    \/ cleanupDelete

SpecCleanup == Init /\ [][NextCleanup]_vars

(* ------------------------------ handlers ------------------------------- *)
Methods == {"POST", "GET", "OPTIONS"}

\* the session cookie of a request, as auth.ts verifySession sees it
Cookies == {"valid", "invalid"}

\* auth.ts requireAuth: a user, or the 401 error
RequireAuth(cookie) == cookie = "valid"

\* the `questions` field of a batch-start body: an array (possibly empty),
\* or something that is not an array
QuestionsFields ==
    { [isArray |-> TRUE, items |-> q] : q \in QuestionLists \cup { << >> } }
        \cup { [isArray |-> FALSE, items |-> << >>] }

InstructionsFields == { Undefined, "instructions" }

\* a validation that asks for an array only
ValidQuestionsAnyArray(q) == q.isArray

\* Array.isArray(questions) && questions.length !== 0  (batch-start.ts:55)
ValidQuestions(q) == q.isArray /\ Len(q.items) # 0

\* a response, with the method and the session cookie of its request
Answer(fn, method, cookie, statusCode) ==
    [fn |-> fn, method |-> method, cookie |-> cookie, statusCode |-> statusCode]

\* batch-start.ts handler: 200 / 405 / 401 / 400, or createJob, the
\* fire-and-forget POST to batch-background, and 202 with the job id
batchStart(method, cookie, questions, instructions, r) ==
    /\ UNCHANGED << now, rmw, orch, ask, mem >>
    /\ IF method = "OPTIONS" THEN
          /\ http' = Answer("batch-start", method, cookie, 200)
          /\ UNCHANGED << store, triggers, held >>
       ELSE IF method # "POST" THEN
          /\ http' = Answer("batch-start", method, cookie, 405)
          /\ UNCHANGED << store, triggers, held >>
       ELSE IF ~RequireAuth(cookie) THEN
          /\ http' = Answer("batch-start", method, cookie, 401)
          /\ UNCHANGED << store, triggers, held >>
       ELSE IF ~ValidQuestions(questions) THEN
          /\ http' = Answer("batch-start", method, cookie, 400)
          /\ UNCHANGED << store, triggers, held >>
       ELSE
          /\ store' = SetJSON(store, JobId(now, r),
                              NewJob(now, r, questions.items, instructions))
          /\ triggers' = triggers \cup {JobId(now, r)}
          /\ held' = held \cup {JobId(now, r)}
          /\ http' = [fn |-> "batch-start", method |-> method,
                      cookie |-> cookie, statusCode |-> 202,
                      jobId |-> JobId(now, r), status |-> "pending",
                      total |-> Len(questions.items)]

\* the fetch to batch-background fails; .catch logs it (batch-start.ts:79)
triggerFails(id) ==
    /\ id \in triggers
    /\ triggers' = triggers \ {id}
    /\ UNCHANGED << store, now, rmw, orch, held, http, ask, mem >>

\* the body of a request to batch-background: a job id, or none
NoJobId == << "none", 0, "none" >>

\* batch-background.ts:28  `const job = getJob(jobId)`: getJob is an async
\* function and the call is not awaited, so `job` is the pending Promise,
\* whatever the store holds
APromise == [promise |-> TRUE]
getJobNotAwaited(id) == APromise

\* `!job` (batch-background.ts:29): null is falsy, a record or a Promise is not
IsFalsy(v) == v = Null

\* `job.questions.length` (batch-background.ts:34): a Promise has no
\* `questions` property and `.length` of undefined throws a TypeError
HasQuestions(v) == v # APromise /\ v # Null

\* batch-background.ts:14-37, the handler up to its loop, for `job` the value
\* line 28 assigned: 405, 400, 404, or the TypeError of line 34 caught at
\* line 80 (500), or updateJob(jobId, { status: 'processing' }) called
\* without await and the loop entered
batchBackground(method, cookie, jobId, job) ==
    /\ orch = NotRunning
    /\ UNCHANGED << store, now, held, ask, mem >>
    /\ IF method # "POST" THEN
          /\ http' = [fn |-> "batch-background", method |-> method,
                      cookie |-> cookie, statusCode |-> 405, jobId |-> jobId]
          /\ UNCHANGED << rmw, orch >>
       ELSE IF jobId = NoJobId THEN
          /\ http' = [fn |-> "batch-background", method |-> method,
                      cookie |-> cookie, statusCode |-> 400, jobId |-> jobId]
          /\ UNCHANGED << rmw, orch >>
       ELSE IF IsFalsy(job) THEN
          /\ http' = [fn |-> "batch-background", method |-> method,
                      cookie |-> cookie, statusCode |-> 404, jobId |-> jobId]
          /\ UNCHANGED << rmw, orch >>
       ELSE IF ~HasQuestions(job) THEN
          /\ http' = [fn |-> "batch-background", method |-> method,
                      cookie |-> cookie, statusCode |-> 500, jobId |-> jobId]
          /\ UNCHANGED << rmw, orch >>
       ELSE
          /\ rmw[Line37] = Idle
          /\ rmw' = [rmw EXCEPT ![Line37] =
                        Called("updateJob", jobId, [status |-> "processing"])]
          /\ orch' = [pc |-> "loop", cookie |-> cookie, jobId |-> jobId,
                      job |-> job, i |-> 1, asked |-> << >>]
          /\ UNCHANGED http

\* what the awaited askQuestion call of line 53 does: return or throw
AskOutcomes == { "returns", "throws" }

\* the `context` argument of askQuestion: undefined, or a text given by the
\* parts it is built from
NoContext == [defined |-> FALSE, text |-> << >>]
Context(parts) == [defined |-> TRUE, text |-> parts]

\* the instructions put before the context
instructionsFirst(context, instructions) ==
    IF Truthy(context) /\ Truthy(instructions)
    THEN Context(<< "Additional instructions: ", instructions, "\n\n", context >>)
    ELSE IF Truthy(context) THEN Context(<< context >>)
    ELSE IF Truthy(instructions)
    THEN Context(<< "Additional instructions: ", instructions >>)
    ELSE NoContext

\* batch-background.ts:44-53: fullContext = q.context || '', extended by
\* `Additional instructions: ${job.instructions}` (after a blank line when
\* there is a context) if the job has instructions; `fullContext ||
\* undefined` is what askQuestion receives
fullContext(context, instructions) ==
    LET first == IF Truthy(context) THEN << context >> ELSE << >>
        full == IF Truthy(instructions)
                THEN IF first # << >>
                     THEN first \o << "\n\nAdditional instructions: ", instructions >>
                     ELSE << "Additional instructions: ", instructions >>
                ELSE first
    IN IF full # << >> THEN Context(full) ELSE NoContext

\* batch-background.ts:40-73, one pass of `for (const q of job.questions)`:
\* askQuestion is awaited, then addResult is called without await, with the
\* answer (line 55) or, from the catch, with the error (line 65); `asked`
\* keeps the arguments of the askQuestion calls
bgQuestion(outcome) ==
    /\ orch.pc = "loop"
    /\ orch.i <= Len(orch.job.questions)
    /\ rmw[AddResultCall(orch.i)] = Idle
    /\ LET q == orch.job.questions[orch.i]
           result == IF outcome = "returns" THEN OkResult(q) ELSE ErrResult(q)
       IN rmw' = [rmw EXCEPT ![AddResultCall(orch.i)] =
                     Called("addResult", orch.jobId, result)]
    /\ orch' = [orch EXCEPT
                   !.i = orch.i + 1,
                   !.asked = Append(@,
                       LET q == orch.job.questions[orch.i]
                       IN [question |-> q.question,
                           context |-> fullContext(q.context, orch.job.instructions)])]
    /\ UNCHANGED << store, now, triggers, held, http, ask, mem >>

\* batch-background.ts:75-79, after the loop: updateJob(jobId, { status:
\* 'completed' }) is called without await and the handler answers 200
bgFinish ==
    /\ orch.pc = "loop"
    /\ orch.i > Len(orch.job.questions)
    /\ rmw[Line76] = Idle
    /\ rmw' = [rmw EXCEPT ![Line76] =
                  Called("updateJob", orch.jobId, [status |-> "completed"])]
    /\ http' = [fn |-> "batch-background", method |-> "POST",
                cookie |-> orch.cookie, statusCode |-> 200, jobId |-> orch.jobId]
    /\ orch' = NotRunning
    /\ UNCHANGED << store, now, triggers, held, ask, mem >>

\* the POST batch-start sent reaches batch-background
bgTriggered(id) ==
    /\ id \in triggers
    /\ triggers' = triggers \ {id}
    /\ batchBackground("POST", "invalid", id, getJobNotAwaited(id))

\* any other request to /api/batch-background
bgRequest(method, cookie, jobId) ==
    /\ UNCHANGED triggers
    /\ batchBackground(method, cookie, jobId, getJobNotAwaited(jobId))

\* batch-status.ts handler: 200 / 405 / 401 / 400 / 404, or the job's
\* status, progress, total and processed
batchStatus(method, cookie, jobId) ==
    /\ UNCHANGED << store, now, rmw, orch, triggers, held, ask, mem >>
    /\ http' =
         IF method = "OPTIONS" THEN Answer("batch-status", method, cookie, 200)
         ELSE IF method # "GET" THEN Answer("batch-status", method, cookie, 405)
         ELSE IF ~RequireAuth(cookie) THEN Answer("batch-status", method, cookie, 401)
         ELSE IF jobId = NoJobId THEN Answer("batch-status", method, cookie, 400)
         ELSE IF GetJob(store, jobId) = Null
              THEN Answer("batch-status", method, cookie, 404)
         ELSE LET job == GetJob(store, jobId)
              IN [fn |-> "batch-status", method |-> method,
                  cookie |-> cookie, statusCode |-> 200,
                  jobId |-> job.id, status |-> job.status,
                  progress |-> job.progress, total |-> Len(job.questions),
                  processed |-> Len(job.results), results |-> job.results,
                  error |-> job.error]

\* the batch endpoints: batch-start, batch-background, batch-status
Next ==
    \/ \E m \in Methods, ck \in Cookies, qs \in QuestionsFields,
          ins \in InstructionsFields, r \in Rands :
          batchStart(m, ck, qs, ins, r)
    \/ \E id \in JobIds : triggerFails(id)
    \/ \E id \in JobIds : bgTriggered(id)
    \/ \E m \in Methods, ck \in Cookies, id \in JobIds \cup {NoJobId} :
          bgRequest(m, ck, id)
    \/ \E m \in Methods, ck \in Cookies, id \in JobIds \cup {NoJobId} :
          batchStatus(m, ck, id)
    \/ Tick

Spec == Init /\ [][Next]_vars

\* the batch endpoints with the POST to batch-background always delivered
FairNext ==
    \/ \E m \in Methods, ck \in Cookies, qs \in QuestionsFields,
          ins \in InstructionsFields, r \in Rands :
          batchStart(m, ck, qs, ins, r)
    \/ \E id \in JobIds : bgTriggered(id)
    \/ \E m \in Methods, ck \in Cookies, id \in JobIds \cup {NoJobId} :
          batchStatus(m, ck, id)
    \/ Tick

\* every triggered invocation of batch-background runs, and a client that
\* holds a job id keeps polling batch-status for it
FairSpec ==
    /\ Init
    /\ [][FairNext]_vars
    /\ \A id \in JobIds : WF_vars(bgTriggered(id))
    /\ \A id \in JobIds : WF_vars(id \in held /\ batchStatus("GET", "valid", id))

\* the POST of batch-start reaches the handler with `job` bound to the stored
\* record, as after `await getJob(jobId)`
bgTriggeredLoaded(id) ==
    /\ id \in triggers
    /\ triggers' = triggers \ {id}
    /\ batchBackground("POST", "invalid", id, GetJob(store, id))

\* the orchestrator from line 29 on with the job record loaded: one job, one
\* invocation, its loop and the store calls it leaves in flight
NextOrch ==
    \/ \E qs \in QuestionLists, r \in Rands :
          /\ JobId(now, r) \notin DOMAIN store
          /\ batchStart("POST", "valid", [isArray |-> TRUE, items |-> qs], Undefined, r)
    \/ \E id \in JobIds : bgTriggeredLoaded(id)
    \/ \E o \in AskOutcomes : bgQuestion(o)
    \/ bgFinish
    \/ \E c \in OrchCalls : getJobReturns(c)
    \/ \E c \in OrchCalls : updateJobWrite(c)
    \/ \E c \in OrchCalls : addResultWrite(c)

SpecOrch == Init /\ [][NextOrch]_vars

\* the values of an optional string of a request body: absent, empty, given
Optional(text) == { Undefined, "", text }

\* arrays of one or two questions, each with or without a context
ContextLists ==
    { << [id |-> "q1", question |-> "text", context |-> c] >> :
          c \in Optional("context") }
    \cup { << [id |-> "q1", question |-> "text", context |-> c],
              [id |-> "q2", question |-> "text", context |-> d] >> :
              c \in Optional("context"), d \in Optional("context") }

\* the orchestrator with the job record loaded, for a job of any questions
\* and instructions: the arguments its loop gives askQuestion
NextContext ==
    \/ \E qs \in ContextLists, ins \in Optional("instructions"), r \in Rands :
          /\ JobId(now, r) \notin DOMAIN store
          /\ batchStart("POST", "valid", [isArray |-> TRUE, items |-> qs], ins, r)
    \/ \E id \in JobIds : bgTriggeredLoaded(id)
    \/ \E o \in AskOutcomes : bgQuestion(o)
    \/ bgFinish

SpecContext == Init /\ [][NextContext]_vars

\* values Math.random().toString(36).slice(2, 8) can take in createJob; two
\* calls may draw the same one
Draws == { "r1", "r2" }

\* createJob called again and again, in the same millisecond or a later one
NextCreate ==
    \/ \E qs \in QuestionLists, ins \in InstructionsFields, r \in Draws :
          createJob(qs, ins, r)
    \/ Tick

SpecCreate == Init /\ [][NextCreate]_vars

\* a job of two questions with instructions, the updateJob calls of
\* batch-background.ts and addResult calls, two at a time, while time passes
NextIdentity ==
    \/ \E r \in Rands :
          /\ store = << >>
          /\ createJob(FirstQuestions(2), "instructions", r)
    \/ \E c \in Callers, id \in DOMAIN store, u \in UpdateArgs : updateJob(c, id, u)
    \/ \E c \in Callers, id \in DOMAIN store, res \in ResultArgs :
          addResult(c, id, res)
    \/ \E c \in Callers : ResultsBelowBound(c) /\ getJobReturns(c)
    \/ \E c \in Callers : updateJobWrite(c)
    \/ \E c \in Callers : addResultWrite(c)
    \/ Tick

SpecIdentity == Init /\ [][NextIdentity]_vars

(* --------------------- notion-tools.ts askQuestion ---------------------- *)
\* notion-tools.ts:346  result.slice(0, 10000)
ToolResultLimit == 10000

\* a text, as its runs of equal characters: << <<"a", 3>>, <<"b", 1>> >> is
\* "aaab"; adjacent runs differ in their character and no run is empty
RECURSIVE TextLen(_)
TextLen(text) ==
    IF text = << >> THEN 0 ELSE Head(text)[2] + TextLen(Tail(text))

\* the last n characters of the text in place of the first n
RECURSIVE SliceFromEnd(_, _)
SliceFromEnd(text, n) ==
    IF text = << >> \/ n >= TextLen(text) THEN text
    ELSE IF TextLen(Tail(text)) >= n THEN SliceFromEnd(Tail(text), n)
    ELSE << << Head(text)[1], n - TextLen(Tail(text)) >> >> \o Tail(text)

\* String.prototype.slice(0, n) for n >= 0: the first n characters of the
\* text, all of it when it has no more
RECURSIVE Slice(_, _)
Slice(text, n) ==
    IF text = << >> \/ n = 0 THEN << >>
    ELSE IF Head(text)[2] <= n
         THEN << Head(text) >> \o Slice(Tail(text), n - Head(text)[2])
         ELSE << << Head(text)[1], n >> >>

\* a text built from parts: << part, n >> is n copies of the string `part`;
\* a literal of a template is one copy
Lit(s) == << << s, 1 >> >>

\* Array.prototype.join: the texts of `parts` with `sep` between neighbours
RECURSIVE Join(_, _)
Join(parts, sep) ==
    IF parts = << >> THEN << >>
    ELSE IF Len(parts) = 1 THEN Head(parts)
    ELSE Head(parts) \o sep \o Join(Tail(parts), sep)

\* notion-tools.ts:53  content.slice(0, 800)
PreviewLimit == 800

\* notion-tools.ts:33  response.results.slice(0, 5)
SearchPages == 5

\* the texts processToolCall returns: a short one, and one over the limit
\* whose last characters differ from the rest
ToolTexts ==
    { << << "a", 5 >> >>,
      << << "a", ToolResultLimit - 1 >>, << "b", 2 >> >> }

\* the correlation ids the provider gives its tool_use blocks
ToolUseIds == { "toolu_1", "toolu_2" }

\* a text block; its text is a sequence of characters
TextBlock == [type |-> "text", text |-> << "[", "a", "]" >>]
\* a tool_use block; each block carries its own arguments
ToolUseBlock(id) ==
    [type |-> "tool_use", id |-> id, name |-> "search_qa_pairs",
     input |-> [query |-> id]]

Blocks == { TextBlock } \cup { ToolUseBlock(id) : id \in ToolUseIds }

\* response.content: up to MaxBlocks blocks, the tool_use ids distinct
Contents ==
    { c \in UNION { [1..n -> Blocks] : n \in 0..MaxBlocks } :
        \A i, j \in DOMAIN c :
            (i # j /\ c[i].type = "tool_use" /\ c[j].type = "tool_use")
                => c[i].id # c[j].id }

StopReasons == { "end_turn", "tool_use", "max_tokens" }

\* what anthropic.messages.create resolves to
Responses == [content : Contents, stop_reason : StopReasons]

\* only the first tool_use block is taken
FirstToolUseBlock(content) ==
    LET all == SelectSeq(content, LAMBDA b : b.type = "tool_use")
    IN IF all = << >> THEN << >> ELSE << all[1] >>

\* response.content.filter(block => block.type === 'tool_use')
ToolUseBlocks(content) == SelectSeq(content, LAMBDA b : b.type = "tool_use")

\* response.content.filter(block => block.type === 'text')
TextBlocks(content) == SelectSeq(content, LAMBDA b : b.type = "text")

\* the loop also requires a tool_use block in the response
ContinuesLoopIfBlocks(response) ==
    /\ response.stop_reason = "tool_use"
    /\ \E i \in DOMAIN response.content : response.content[i].type = "tool_use"

\* the condition of the loop, notion-tools.ts:330
ContinuesLoop(response) == response.stop_reason = "tool_use"

\* notion-tools.ts:343-347: the tool_result entry for one tool_use block
ToolResult(toolUse, result) ==
    [type |-> "tool_result", tool_use_id |-> toolUse.id,
     content |-> Slice(result, ToolResultLimit)]

\* a trace entry that names the tool and leaves its arguments out
SearchEntryNameOnly(toolUse) == << toolUse.name, [query |-> ""] >>

\* notion-tools.ts:338: the trace entry `${name}: ${JSON.stringify(input)}`
SearchEntry(toolUse) == << toolUse.name, toolUse.input >>

\* what one awaited processToolCall does: return a text, or throw
ToolOutcomes ==
    { [throws |-> FALSE, result |-> t] : t \in ToolTexts }
        \cup { [throws |-> TRUE, result |-> << >>] }
Throws(outcome) == outcome.throws

\* askQuestion up to the first `await anthropic.messages.create`
\* (notion-tools.ts:307-325)
askQuestion(question, context) ==
    /\ ask.pc = "idle"
    /\ ask' = [ask EXCEPT
                 !.pc = "calling",
                 !.messages = << [role |-> "user",
                                  content |-> << question, context >>] >>]
    /\ UNCHANGED << store, now, rmw, orch, triggers, held, http, mem >>

\* the provider call in flight resolves to a response
providerResponds(response) ==
    /\ ask.pc = "calling"
    /\ ask.calls < MaxCalls
    /\ ask' = [ask EXCEPT !.pc = "responded", !.response = response,
                           !.calls = ask.calls + 1]
    /\ UNCHANGED << store, now, rmw, orch, triggers, held, http, mem >>

\* the provider call in flight rejects: askQuestion throws
providerThrows ==
    /\ ask.pc = "calling"
    /\ ask' = [ask EXCEPT !.pc = "thrown"]
    /\ UNCHANGED << store, now, rmw, orch, triggers, held, http, mem >>

\* (`results` keeps the texts the awaited processToolCall calls of the pass
\* returned, the `result` of line 339, before they are sliced)
\* one pass of the loop, notion-tools.ts:330-359: every tool_use block is run
\* in order and traced; both turns are pushed and the provider called again,
\* unless a processToolCall throws, which askQuestion does not catch
askToolUse(outcomes) ==
    /\ ask.pc = "responded"
    /\ ContinuesLoop(ask.response)
    /\ LET toolUseBlocks == ToolUseBlocks(ask.response.content)
           n == Len(toolUseBlocks)
           thrown == { i \in 1..n : Throws(outcomes[i]) }
           run == IF thrown = {} THEN n
                  ELSE CHOOSE i \in thrown : \A j \in thrown : i <= j
           toolResults == [i \in 1..n |->
                              ToolResult(toolUseBlocks[i], outcomes[i].result)]
       IN /\ DOMAIN outcomes = 1..n
          /\ ask' = [ask EXCEPT
                 !.searches = ask.searches \o [i \in 1..run |-> SearchEntry(toolUseBlocks[i])],
                 !.pc = IF thrown = {} THEN "calling" ELSE "thrown",
                 !.results = IF thrown = {}
                             THEN [i \in 1..n |-> outcomes[i].result]
                             ELSE ask.results,
                 !.messages =
                     IF thrown = {}
                     THEN ask.messages \o
                          << [role |-> "assistant", content |-> ask.response.content],
                             [role |-> "user", content |-> toolResults] >>
                     ELSE ask.messages]
    /\ UNCHANGED << store, now, rmw, orch, triggers, held, http, mem >>

\* answer.match(/\[([^\]]+)\]/g) from position i on (notion-tools.ts:369):
\* at a "[" the greedy [^\]]+ runs to the next "]"; the match needs one
\* character at least between them, and the scan goes on behind the match
RECURSIVE citationMatches(_, _)
citationMatches(answer, i) ==
    IF i > Len(answer) THEN << >>
    ELSE IF answer[i] # "[" THEN citationMatches(answer, i + 1)
    ELSE LET closing == { k \in (i + 1)..Len(answer) : answer[k] = "]" }
             k == CHOOSE c \in closing : \A d \in closing : c <= d
         IN IF closing = {} \/ k = i + 1 THEN citationMatches(answer, i + 1)
            ELSE << SubSeq(answer, i, k) >> \o citationMatches(answer, k + 1)

\* the array as it is, duplicates kept
KeepAll(seq) == seq

\* [...new Set(seq)] (notion-tools.ts:370): the values in the order of their
\* first insertion
RECURSIVE Unique(_)
Unique(seq) ==
    IF seq = << >> THEN << >>
    ELSE LET front == Unique(SubSeq(seq, 1, Len(seq) - 1))
             last == seq[Len(seq)]
         IN IF \E i \in DOMAIN front : front[i] = last THEN front
            ELSE Append(front, last)

\* after the loop, notion-tools.ts:362-372: the answer, the citations and the
\* trace are returned
askReturn ==
    /\ ask.pc = "responded"
    /\ ~ContinuesLoop(ask.response)
    /\ LET textBlocks == TextBlocks(ask.response.content)
           answer == Join([i \in DOMAIN textBlocks |-> textBlocks[i].text],
                          << "\n" >>)
           matches == citationMatches(answer, 1)
           citations == Unique([i \in DOMAIN matches |->
                                   SubSeq(matches[i], 2, Len(matches[i]) - 1)])
       IN ask' = [ask EXCEPT
                    !.pc = "done",
                    !.result = [answer |-> answer, citations |-> citations,
                                searches |-> ask.searches]]
    /\ UNCHANGED << store, now, rmw, orch, triggers, held, http, mem >>

\* one askQuestion call against any provider and any tool behaviour
NextAsk ==
    \/ \E c \in { Undefined, "context" } : askQuestion("question", c)
    \/ \E r \in Responses : providerResponds(r)
    \/ providerThrows
    \/ \E n \in 0..MaxBlocks : \E o \in [1..n -> ToolOutcomes] : askToolUse(o)
    \/ askReturn

SpecAsk == Init /\ [][NextAsk]_vars

\* the texts of a final response: up to n pieces, each a bracket, a letter
\* or a bracketed letter
RECURSIVE Texts(_)
Texts(n) ==
    IF n = 0 THEN { << >> }
    ELSE Texts(n - 1) \cup
         { t \o p : t \in Texts(n - 1),
                    p \in { << "[" >>, << "]" >>, << "a" >>,
                            << "[", "a", "]" >>, << "[", "b", "]" >> } }

\* final responses: one text block or two, a tool_use block between them
FinalResponses ==
    { [content |-> << [type |-> "text", text |-> t] >>, stop_reason |-> "end_turn"] :
          t \in Texts(MaxPieces) }
    \cup { [content |-> << [type |-> "text", text |-> t], ToolUseBlock("toolu_1"),
                           [type |-> "text", text |-> u] >>,
            stop_reason |-> "max_tokens"] :
              t \in Texts(MaxPieces), u \in Texts(MaxPieces) }

\* askQuestion answered at once by a final response of any text
NextCite ==
    \/ askQuestion("question", Undefined)
    \/ \E r \in FinalResponses : providerResponds(r)
    \/ askReturn

SpecCite == Init /\ [][NextCite]_vars

(* --------------------- notion-tools.ts processToolCall ------------------ *)
\* notion-tools.ts:272-294: the tool names of the switch, and one it lacks
ToolNames ==
    { "search_notion", "get_notion_page", "search_qa_pairs", "search_docs",
      "get_docs_page", "other" }

\* a field of a tool input: absent, a query of plain words, or one of
\* arbitrary characters such as "c++ (beta"
FieldValues == { Undefined, "plain words", "c++ (beta" }

\* the page_id field: absent, a control identifier as the table lists it and
\* in lower case, a named shortcut as listed and in another case with a run
\* of blanks, an identifier of the workspace itself, and the name of a
\* property every object inherits
PageIdValues ==
    { Undefined, "CC1.1.3", "cc1.1.3", "soc2", "Employee  Handbook",
      "a1b2c3d4", "constructor" }

\* toolInput as the provider sends it: every field may be absent
ToolInputs ==
    [query : FieldValues, page_id : PageIdValues, page_path : FieldValues]

\* what a call does: it returns a text, or it throws
Returns(text) == [throws |-> FALSE, result |-> text]
Thrown == [throws |-> TRUE, result |-> << >>]

\* a returned text whose content the model leaves open
Returned == Returns(Lit("text"))

\* a method call on a value (v.toLowerCase(), v.replace(...)) throws a
\* TypeError when v is undefined
MethodCallThrows(v) == v = Undefined

\* new RegExp(term, 'gi') throws a SyntaxError for a term such as "c++" or
\* "(beta"
RegExpThrows(term) == term = "c++ (beta"

\* pageIdOrControl.toUpperCase() (notion-tools.ts:75), on the values of
\* PageIdValues
upperControl(s) ==
    CASE s \in { "CC1.1.3", "cc1.1.3" } -> "CC1.1.3"
      [] s = "soc2" -> "SOC2"
      [] s = "Employee  Handbook" -> "EMPLOYEE  HANDBOOK"
      [] s = "a1b2c3d4" -> "A1B2C3D4"
      [] s = "constructor" -> "CONSTRUCTOR"

\* pageIdOrControl.toLowerCase().replace(/\s+/g, '_') (notion-tools.ts:87),
\* on the values of PageIdValues: lower case, and every run of blanks made
\* one underscore
lowerAlias(s) ==
    CASE s \in { "CC1.1.3", "cc1.1.3" } -> "cc1.1.3"
      [] s = "Employee  Handbook" -> "employee_handbook"
      [] OTHER -> s

\* system-prompt.ts:109-114
NOTION_PAGES ==
    [EMPLOYEE_HANDBOOK |-> "dc73011524e54feaa2a69d78d6e5164e",
     SECURITY_HOMEPAGE |-> "6b8833be227a437a8f846f9cd5c896e4",
     ENGINEERING_WIKI |-> "3f72c85f50d947ec97543db5242260f9",
     SOC2_PAGE |-> "a4bde54a446d41b6a3f36ccf8fbf3374"]

\* system-prompt.ts:116-128
CC_CONTROLS ==
    ("CC1.1.1" :> "526475ca69d24b67a4f7ddf8d8964201") @@
    ("CC1.1.3" :> "53107304c6764dad877fe3dc62b7fe2f") @@
    ("CC1.5.1" :> "519cf166e30d44bfb454d388ed246e04") @@
    ("CC2.3.3" :> "cdfb1ee20e754a98b2ee05e323f44433") @@
    ("CC2.3.4" :> "1b4a8dad05ac803ba447fc9262f97f83") @@
    ("CC6.2.2" :> "808186e5ec0845e99539c798f47ffb15") @@
    ("CC8.1.1" :> "fc9d81e43f8440c8b798d5018a890134") @@
    ("CC9.1.1" :> "54d40b58483548bebe4d087df35eed07") @@
    ("CC9.1.2" :> "ab72611c438740fe8ab4f7dcac850c91") @@
    ("CC-P2.1" :> "df929f142b7d418893dd979ceeee50f8") @@
    ("CC.AI.1" :> "21ea8dad05ac8094a02de223590bc0b3")

\* notion-tools.ts:81-86
aliases ==
    ("employee_handbook" :> NOTION_PAGES.EMPLOYEE_HANDBOOK) @@
    ("security_homepage" :> NOTION_PAGES.SECURITY_HOMEPAGE) @@
    ("engineering_wiki" :> NOTION_PAGES.ENGINEERING_WIKI) @@
    ("soc2" :> NOTION_PAGES.SOC2_PAGE)

\* what an object literal inherits from Object.prototype under a name that
\* is all lower case: `constructor` is the function Object and `__proto__`
\* the prototype, written as the strings they convert to
Inherited ==
    ("constructor" :> "function Object() { [native code] }") @@
    ("__proto__" :> "[object Object]")

\* obj[key] on an object literal: its own property, else the inherited one,
\* else undefined
Get(obj, key) ==
    IF key \in DOMAIN obj THEN obj[key]
    ELSE IF key \in DOMAIN Inherited THEN Inherited[key]
    ELSE Undefined

\* notion-tools.ts:72-90: the pageId getNotionPage ends up with
pageId(pageIdOrControl) ==
    LET control == IF Truthy(Get(CC_CONTROLS, upperControl(pageIdOrControl)))
                   THEN Get(CC_CONTROLS, upperControl(pageIdOrControl))
                   ELSE pageIdOrControl
    IN IF Truthy(Get(aliases, lowerAlias(pageIdOrControl)))
       THEN Get(aliases, lowerAlias(pageIdOrControl))
       ELSE control

\* what the tools find outside the program when they run:
\*   files        markdown files under the docs folder
\*   unreadable   fs.readdirSync / fs.readFileSync throw
\*   searchFails  notion.search rejects
\*   matched      pages notion.search returns
\*   unavailable  the matched pages whose blocks.children.list rejects
\*   long         the content of page 1 has more than 800 characters
\*   retrieveFails  notion.pages.retrieve rejects
\*   listPages    blocks.children.list calls until has_more is false
\*   listFailsAt  the blocks.children.list call that rejects (0: none)
\*   snapshot     the exported index files are there and hold pages
\*   localHits    pages of the snapshot that match the query or identifier
DefaultEnv ==
    [files |-> 0, unreadable |-> FALSE, searchFails |-> FALSE, matched |-> 0,
     unavailable |-> {}, long |-> FALSE, retrieveFails |-> FALSE,
     listPages |-> 1, listFailsAt |-> 0, snapshot |-> FALSE, localHits |-> 0]

\* the docs folder, the remote search and the remote page fetch, each in
\* every behaviour it has
ToolEnvs ==
    { [DefaultEnv EXCEPT !.files = f, !.unreadable = u] :
          f \in {0, 1}, u \in BOOLEAN }
    \cup { [DefaultEnv EXCEPT !.searchFails = TRUE] }
    \cup UNION { { [DefaultEnv EXCEPT !.matched = m, !.unavailable = u,
                                      !.long = l] :
                      u \in SUBSET (1..m), l \in BOOLEAN } : m \in 0..MaxMatched }
    \cup UNION { { [DefaultEnv EXCEPT !.retrieveFails = r, !.listPages = n,
                                      !.listFailsAt = k] :
                      r \in BOOLEAN, k \in 0..n } : n \in 1..MaxListPages }
    \cup { [DefaultEnv EXCEPT !.snapshot = TRUE, !.localHits = h, !.matched = h] :
              h \in {0, 1} }

\* the i-th page notion.search matched, with the text of its first blocks
\* (notion-tools.ts:45-51): page 2 carries no title
Page(i, env) ==
    [id |-> i,
     hasTitle |-> i # 2,
     title |-> << << "t", i >> >>,
     content |-> IF i = 1 /\ env.long THEN << << "a", PreviewLimit + 1 >> >>
                 ELSE << << "a", i >> >>]

\* notion-tools.ts:34-37 and 93-96
Title(page) == IF page.hasTitle THEN page.title ELSE Lit("Untitled")

\* the callback of notion-tools.ts:33-57 without its inner try/catch: a
\* failed block fetch rejects
PageSectionUncaught(page, env) ==
    IF page.id \in env.unavailable THEN Thrown
    ELSE Returns(Lit("## ") \o Title(page) \o Lit("\n")
                 \o Slice(page.content, PreviewLimit)
                 \o (IF TextLen(page.content) > PreviewLimit
                     THEN Lit("...") ELSE << >>))

\* the callback of notion-tools.ts:33-57: title and preview of one page, the
\* marker when the block fetch failed
PageSection(page, env) ==
    IF page.id \in env.unavailable
    THEN Returns(Lit("## ") \o Title(page) \o Lit("\n[Content preview unavailable]"))
    ELSE Returns(Lit("## ") \o Title(page) \o Lit("\n")
                 \o Slice(page.content, PreviewLimit)
                 \o (IF TextLen(page.content) > PreviewLimit
                     THEN Lit("...") ELSE << >>))

\* response.results.slice(0, 5)  (notion-tools.ts:33)
FirstPages(env) ==
    [i \in 1..(IF env.matched < SearchPages THEN env.matched ELSE SearchPages)
        |-> Page(i, env)]

\* searchNotion (notion-tools.ts:17-65): the whole body is inside try/catch;
\* Promise.all rejects when a callback rejects
searchNotion(query, env) ==
    IF env.searchFails
    THEN Returns(Lit("Error searching Notion: ") \o Lit("message"))
    ELSE IF env.matched = 0
    THEN Returns(Lit("No results found for \"") \o Lit(query)
                 \o Lit("\" in Notion."))
    ELSE LET pages == FirstPages(env)
             results == [i \in DOMAIN pages |-> PageSection(pages[i], env)]
         IN IF \E i \in DOMAIN results : results[i].throws
            THEN Returns(Lit("Error searching Notion: ") \o Lit("message"))
            ELSE Returns(Join([i \in DOMAIN results |-> results[i].result],
                              Lit("\n\n---\n\n")))

\* getNotionPage (notion-tools.ts:70-137): the whole body is inside try/catch
getNotionPage(pageIdOrControl, env) ==
    IF MethodCallThrows(pageIdOrControl) \/ env.retrieveFails
          \/ env.listFailsAt > 0
    THEN Returns(Lit("Error fetching page: ") \o Lit("message"))
    ELSE Returns(Lit("# ") \o Lit("title") \o Lit("\n\n") \o Lit("content"))

\* the calls searchNotion and getNotionPage make to the remote workspace
NotionCalls(toolName, toolInput, env) ==
    IF toolName = "search_notion"
    THEN << [api |-> "search", arg |-> toolInput.query] >> \o
         (IF env.searchFails THEN << >>
          ELSE [i \in DOMAIN FirstPages(env) |->
                   [api |-> "blocks.children.list", arg |-> FirstPages(env)[i].id]])
    ELSE IF toolName = "get_notion_page" /\ ~MethodCallThrows(toolInput.page_id)
    THEN << [api |-> "pages.retrieve", arg |-> pageId(toolInput.page_id)] >> \o
         (IF env.retrieveFails THEN << >>
          ELSE [i \in 1..(IF env.listFailsAt > 0 THEN env.listFailsAt
                            ELSE env.listPages) |->
                   [api |-> "blocks.children.list",
                    arg |-> pageId(toolInput.page_id)]])
    ELSE << >>

\* searchLocalIndex (system-prompt.ts:261-293): a fixed text without a
\* snapshot, another when no page scores, else the pages found
searchLocalIndex(query, env) ==
    IF ~env.snapshot THEN Returns(Lit("Local index not available"))
    ELSE IF MethodCallThrows(query) THEN Thrown
    ELSE IF env.localHits = 0
    THEN Returns(Lit("No local results for \"") \o Lit(query) \o Lit("\""))
    ELSE Returns(Lit("## ") \o Lit("title") \o Lit("\n**Parent:** ")
                 \o Lit("parent") \o Lit("..."))

\* getLocalPage (system-prompt.ts:298-316): null without a snapshot and null
\* when no page of it matches
getLocalPage(pageIdOrTitle, env) ==
    IF ~env.snapshot THEN Null
    ELSE IF MethodCallThrows(pageIdOrTitle) THEN Thrown
    ELSE IF env.localHits = 0 THEN Null
    ELSE Returns(Lit("# ") \o Lit("title") \o Lit("\n\n**Parent:** ")
                 \o Lit("parent"))

\* searchQAPairs: query.toLowerCase() at line 23, no try/catch
searchQAPairs(query) == IF MethodCallThrows(query) THEN Thrown ELSE Returned

\* readMarkdownFiles (part_002:49-78): the files read; a directory or a file
\* that cannot be read is logged and left out
ReadMarkdownFiles(env) == IF env.unreadable THEN 0 ELSE env.files

\* searchDocs (part_002:83-151): query.toLowerCase() at line 85 and, for
\* every markdown file read, new RegExp(term, 'gi') at line 109; no try/catch
searchDocs(query, env) ==
    IF MethodCallThrows(query) THEN Thrown
    ELSE IF ReadMarkdownFiles(env) > 0 /\ RegExpThrows(query) THEN Thrown
    ELSE IF ReadMarkdownFiles(env) = 0
    THEN Returns(Lit("No results found for \"") \o Lit(query)
                 \o Lit("\" in Zenlytic docs."))
    ELSE Returned

\* getDocsPage with its reads outside a try/catch
getDocsPageUncaught(pagePath, env) ==
    IF MethodCallThrows(pagePath) \/ env.unreadable THEN Thrown
    ELSE IF env.files = 0 THEN Returns(Lit("Page not found: ") \o Lit(pagePath))
    ELSE Returns(Lit("Source: ") \o Lit("url") \o Lit("\n\n") \o Lit("content"))

\* getDocsPage (part_002:156-198): pagePath.replace(...) at lines 160-162,
\* before the try; the reads are inside it
getDocsPage(pagePath, env) ==
    IF MethodCallThrows(pagePath) THEN Thrown
    ELSE IF env.files = 0 THEN Returns(Lit("Page not found: ") \o Lit(pagePath))
    ELSE IF env.unreadable THEN Returns(Lit("Error reading page: ") \o Lit("message"))
    ELSE Returns(Lit("Source: ") \o Lit("url") \o Lit("\n\n") \o Lit("content"))

\* a failure in place of the text
UnknownToolThrows(toolName) == Thrown

\* notion-tools.ts:293-294  default: return `Unknown tool: ${toolName}`
UnknownTool(toolName) == Returns(Lit("Unknown tool: ") \o Lit(toolName))

\* processToolCall(toolName, toolInput), run where the tools find `env`
processToolCall(toolName, toolInput, env) ==
    CASE toolName = "search_notion" -> searchNotion(toolInput.query, env)
      [] toolName = "get_notion_page" -> getNotionPage(toolInput.page_id, env)
      [] toolName = "search_qa_pairs" -> searchQAPairs(toolInput.query)
      [] toolName = "search_docs" -> searchDocs(toolInput.query, env)
      [] toolName = "get_docs_page" -> getDocsPage(toolInput.page_path, env)
      [] OTHER -> UnknownTool(toolName)

\* the tool calls of one pass of askQuestion's loop, one after the other
\* (notion-tools.ts:337-348): each is traced and awaited; a throw ends
\* askQuestion
toolCall(toolName, toolInput, env) ==
    /\ ask.pc \in {"idle", "tools"}
    /\ Len(ask.searches) < MaxBlocks
    /\ ask' = [ask EXCEPT
                 !.searches = Append(ask.searches,
                                     [name |-> toolName, input |-> toolInput,
                                      outcome |-> processToolCall(toolName, toolInput, env)]),
                 !.pc = IF processToolCall(toolName, toolInput, env).throws
                        THEN "thrown" ELSE "tools"]
    /\ UNCHANGED << store, now, rmw, orch, triggers, held, http, mem >>

NextTools ==
    \E toolName \in ToolNames, toolInput \in ToolInputs, files \in {0, 1} :
        toolCall(toolName, toolInput, [DefaultEnv EXCEPT !.files = files])

SpecTools == Init /\ [][NextTools]_vars

\* one awaited processToolCall(toolName, toolInput) of notion-tools.ts:339:
\* the tool runs where it finds `env`; what was asked, the remote calls made
\* and the outcome are kept
routeToolCall(toolName, toolInput, env) ==
    /\ ask.pc = "idle"
    /\ ask' = [ask EXCEPT
                 !.pc = IF processToolCall(toolName, toolInput, env).throws
                        THEN "thrown" ELSE "routed",
                 !.result = [name |-> toolName, input |-> toolInput, env |-> env,
                             calls |-> NotionCalls(toolName, toolInput, env),
                             outcome |-> processToolCall(toolName, toolInput, env)]]
    /\ UNCHANGED << store, now, rmw, orch, triggers, held, http, mem >>

\* processToolCall against every tool name, input and behaviour of the
\* remote workspace and the docs folder
NextRouter ==
    /\ ask.pc = "idle"
    /\ \E toolName \in ToolNames, toolInput \in ToolInputs, env \in ToolEnvs :
          routeToolCall(toolName, toolInput, env)

SpecRouter == Init /\ [][NextRouter]_vars

(* ---------------- batch.ts, the ask and qa-pairs handlers -------------- *)
\* batch.ts:61  const maxBatchSize = 10
maxBatchSize == 10

\* the `questions` field of a /api/batch body: not an array, an empty array,
\* or 1, 2, maxBatchSize or maxBatchSize + 1 questions with ids 1, 2, ...
BatchFields ==
    { [isArray |-> TRUE,
       items |-> [i \in 1..n |->
                     [id |-> i, question |-> "text", context |-> Undefined]]] :
          n \in { 0, 1, 2, maxBatchSize, maxBatchSize + 1 } }
        \cup { [isArray |-> FALSE, items |-> << >>] }

\* batch.ts:32-73, the handler up to its loop: 200 for OPTIONS, 405, 400 for
\* no array or an empty one, 400 for more than maxBatchSize questions, else
\* the loop is entered with no response given yet; the handler makes no
\* requireAuth call
batch(method, cookie, questions) ==
    /\ orch = NotRunning
    /\ UNCHANGED << store, now, rmw, triggers, held, ask, mem >>
    /\ IF method = "OPTIONS" THEN
          /\ http' = Answer("batch", method, cookie, 200)
          /\ UNCHANGED orch
       ELSE IF method # "POST" THEN
          /\ http' = Answer("batch", method, cookie, 405)
          /\ UNCHANGED orch
       ELSE IF ~ValidQuestions(questions) THEN
          /\ http' = Answer("batch", method, cookie, 400)
          /\ UNCHANGED orch
       ELSE IF Len(questions.items) > maxBatchSize THEN
          /\ http' = Answer("batch", method, cookie, 400)
          /\ UNCHANGED orch
       ELSE
          /\ orch' = [pc |-> "batch", cookie |-> cookie,
                      questions |-> questions.items, results |-> << >>,
                      outcomes |-> << >>]
          /\ http' = NoResponse

\* a loop body whose catch loses the error
BatchResultUnmarked(q, outcome) == OkResult(q)

\* batch.ts:79-93: the result pushed for q, from the answer askQuestion
\* returned or, in the catch, from the error it threw
BatchResult(q, outcome) ==
    IF outcome = "returns" THEN OkResult(q) ELSE ErrResult(q)

\* batch.ts:77-98, one pass of `for (const q of questions)`: askQuestion is
\* awaited and one result pushed; `outcomes` keeps what each call did
batchQuestion(outcome) ==
    /\ orch.pc = "batch"
    /\ Len(orch.results) < Len(orch.questions)
    /\ LET q == orch.questions[Len(orch.results) + 1]
       IN orch' = [orch EXCEPT !.results = Append(@, BatchResult(q, outcome)),
                               !.outcomes = Append(@, outcome)]
    /\ UNCHANGED << store, now, rmw, triggers, held, http, ask, mem >>

\* batch.ts:100-108, after the loop: 200 with total, processed and results
batchReturn ==
    /\ orch.pc = "batch"
    /\ Len(orch.results) = Len(orch.questions)
    /\ http' = [fn |-> "batch", method |-> "POST", cookie |-> orch.cookie,
                statusCode |-> 200, total |-> Len(orch.questions),
                processed |-> Len(orch.results), results |-> orch.results,
                questions |-> orch.questions, outcomes |-> orch.outcomes]
    /\ orch' = NotRunning
    /\ UNCHANGED << store, now, rmw, triggers, held, ask, mem >>

\* /api/batch under any request, one invocation at a time
NextBatch ==
    \/ \E m \in Methods, ck \in Cookies, qs \in BatchFields : batch(m, ck, qs)
    \/ \E o \in AskOutcomes : batchQuestion(o)
    \/ batchReturn

SpecBatch == Init /\ [][NextBatch]_vars

\* the handler of /api/ask (part_004:18-77): 200 for OPTIONS, 405, 401, 400
\* without a question string, else askQuestion awaited: 200 with its result,
\* or 500 from the catch
askHandler(method, cookie, question, outcome) ==
    /\ UNCHANGED << store, now, rmw, orch, triggers, held, ask, mem >>
    /\ http' =
         IF method = "OPTIONS" THEN Answer("ask", method, cookie, 200)
         ELSE IF method # "POST" THEN Answer("ask", method, cookie, 405)
         ELSE IF ~RequireAuth(cookie) THEN Answer("ask", method, cookie, 401)
         ELSE IF ~Truthy(question) THEN Answer("ask", method, cookie, 400)
         ELSE IF outcome = "returns" THEN Answer("ask", method, cookie, 200)
         ELSE Answer("ask", method, cookie, 500)

\* the handler of /api/qa-pairs (part_005:18-90): 200 for OPTIONS; GET
\* answers 200 from searchQAPairs or getAllQAPairs; POST answers 400 without
\* question and answer, else addQAPair pushes the pair (part_003:76-85) and
\* the answer is 201; 405 for another method; no requireAuth call
qaPairsHandler(method, cookie, query, question) ==
    /\ UNCHANGED << store, now, rmw, orch, triggers, held, ask >>
    /\ IF method = "POST" /\ Truthy(question) THEN
          /\ Len(mem.qaPairs) < MaxPairs
          /\ mem' = [mem EXCEPT !.qaPairs =
                        Append(mem.qaPairs,
                               [id |-> << "qa", now >>, question |-> question])]
          /\ http' = Answer("qa-pairs", method, cookie, 201)
       ELSE
          /\ UNCHANGED mem
          /\ http' =
               IF method = "OPTIONS" THEN Answer("qa-pairs", method, cookie, 200)
               ELSE IF method = "GET" THEN
                  [fn |-> "qa-pairs", method |-> method, cookie |-> cookie,
                   statusCode |-> 200,
                   read |-> IF Truthy(query) THEN "searchQAPairs"
                            ELSE "getAllQAPairs"]
               ELSE IF method = "POST" THEN Answer("qa-pairs", method, cookie, 400)
               ELSE Answer("qa-pairs", method, cookie, 405)

\* the six endpoints that do work, under any request
NextApi ==
    \/ \E m \in Methods, ck \in Cookies, qs \in QuestionsFields, r \in Rands :
          batchStart(m, ck, qs, Undefined, r)
    \/ \E id \in JobIds : bgTriggered(id)
    \/ \E m \in Methods, ck \in Cookies, id \in JobIds \cup {NoJobId} :
          bgRequest(m, ck, id)
    \/ \E m \in Methods, ck \in Cookies, id \in JobIds \cup {NoJobId} :
          batchStatus(m, ck, id)
    \/ \E m \in Methods, ck \in Cookies, q \in { Undefined, "question" },
          o \in AskOutcomes : askHandler(m, ck, q, o)
    \/ \E m \in Methods, ck \in Cookies, qs \in QuestionsFields : batch(m, ck, qs)
    \/ \E o \in AskOutcomes : batchQuestion(o)
    \/ batchReturn
    \/ \E m \in Methods \cup { "DELETE" }, ck \in Cookies,
          query \in { Undefined, "query" }, q \in { Undefined, "question" } :
          qaPairsHandler(m, ck, query, q)

SpecApi == Init /\ [][NextApi]_vars

(* ------------------- system-prompt.ts: the local index ------------------ *)
\* String.prototype.toLowerCase on one character
lowerChar(c) ==
    CASE c = "A" -> "a" [] c = "B" -> "b" [] c = "C" -> "c" [] c = "D" -> "d" [] c = "E" -> "e"
      [] c = "F" -> "f" [] c = "G" -> "g" [] c = "H" -> "h" [] c = "I" -> "i" [] c = "J" -> "j"
      [] c = "K" -> "k" [] c = "L" -> "l" [] c = "M" -> "m" [] c = "N" -> "n" [] c = "O" -> "o"
      [] c = "P" -> "p" [] c = "Q" -> "q" [] c = "R" -> "r" [] c = "S" -> "s" [] c = "T" -> "t"
      [] c = "U" -> "u" [] c = "V" -> "v" [] c = "W" -> "w" [] c = "X" -> "x" [] c = "Y" -> "y"
      [] c = "Z" -> "z"
      [] OTHER -> c

\* s.toLowerCase(), a string being the sequence of its characters
toLowerCase(s) == [i \in DOMAIN s |-> lowerChar(s[i])]

\* s.includes(t)
includes(s, t) ==
    \E i \in 0..(Len(s) - Len(t)) : SubSeq(s, i + 1, i + Len(t)) = t

\* the pieces of s between runs of characters of `separators`, those of
\* more than `min` characters: s.split(/[...]+/).filter(t => t.length > min)
RECURSIVE SplitFilter(_, _, _)
SplitFilter(s, separators, min) ==
    IF s = << >> THEN << >>
    ELSE IF s[1] \in separators THEN SplitFilter(Tail(s), separators, min)
    ELSE LET ends == { k \in 1..Len(s) : k = Len(s) \/ s[k + 1] \in separators }
             k == CHOOSE e \in ends : \A f \in ends : e <= f
         IN (IF k > min THEN << SubSeq(s, 1, k) >> ELSE << >>)
            \o SplitFilter(SubSeq(s, k + 1, Len(s)), separators, min)

\* system-prompt.ts:268-271: the lower-cased query split on blanks and
\* commas, tokens of one or two characters dropped
queryTerms(query) == SplitFilter(toLowerCase(query), { " ", "," }, 2)

\* /^cc[\d\.]+$/i.test(term)
IsControlTerm(term) ==
    /\ Len(term) >= 3
    /\ lowerChar(term[1]) = "c" /\ lowerChar(term[2]) = "c"
    /\ \A i \in 3..Len(term) :
          term[i] \in { "0", "1", "2", "3", "4", "5", "6", "7", "8", "9", "." }

\* a scoreMatch that pays for the best keyword match only once per page
termScoreFlat(page, term) ==
    LET keywordsLower == [i \in DOMAIN page.keywords |-> toLowerCase(page.keywords[i])]
    IN IF \E i \in DOMAIN keywordsLower : keywordsLower[i] = term THEN 10
       ELSE IF \E i \in DOMAIN keywordsLower : includes(keywordsLower[i], term) THEN 5
       ELSE IF includes(toLowerCase(page.title), term) THEN 8
       ELSE IF includes(toLowerCase(page.snippet), term) THEN 3
       ELSE 0

\* system-prompt.ts:229-252, the body of scoreMatch's loop for one term
termScore(page, term) ==
    LET keywordsLower == [i \in DOMAIN page.keywords |-> toLowerCase(page.keywords[i])]
        exact == \E i \in DOMAIN keywordsLower : keywordsLower[i] = term
    IN (IF exact THEN 10
        ELSE IF \E i \in DOMAIN keywordsLower : includes(keywordsLower[i], term)
        THEN 5 ELSE 0)
       + (IF includes(toLowerCase(page.title), term) THEN 8 ELSE 0)
       + (IF includes(toLowerCase(page.snippet), term) THEN 3 ELSE 0)
       + (IF IsControlTerm(term) /\ exact THEN 15 ELSE 0)

\* scoreMatch (system-prompt.ts:223-255)
RECURSIVE scoreMatch(_, _)
scoreMatch(page, terms) ==
    IF terms = << >> THEN 0
    ELSE termScore(page, Head(terms)) + scoreMatch(page, Tail(terms))

\* Array.prototype.sort((a, b) => b.score - a.score): stable, so an item
\* goes behind every item already placed that scores as much or more
RECURSIVE SortByScore(_)
SortByScore(items) ==
    IF items = << >> THEN << >>
    ELSE LET sorted == SortByScore(SubSeq(items, 1, Len(items) - 1))
             last == items[Len(items)]
             k == Cardinality({ i \in DOMAIN sorted : sorted[i].score >= last.score })
         IN SubSeq(sorted, 1, k) \o << last >> \o SubSeq(sorted, k + 1, Len(sorted))

\* `limit = 5`: the default of a parameter that is not given; the arguments
\* given for it are << >> or << n >>
DefaultLimit(limit) == IF limit = << >> THEN 5 ELSE limit[1]

\* system-prompt.ts:273-281: score every page, keep those with a score above
\* 0, sort, slice(0, limit); the result is given by places in the index
scoredPages(index, query, limit) ==
    LET scored == [i \in DOMAIN index |->
                      [place |-> i, score |-> scoreMatch(index[i], queryTerms(query))]]
        sorted == SortByScore(SelectSeq(scored, LAMBDA item : item.score > 0))
    IN SubSeq(sorted, 1, IF Len(sorted) < DefaultLimit(limit) THEN Len(sorted)
                         ELSE DefaultLimit(limit))

\* pages of an exported snapshot: id, title, keywords, snippet
IndexPages ==
    << [id |-> << "a", "-", "1" >>, title |-> << "S", "e", "c", "u", "r", "i", "t", "y", " ", "T", "r", "a", "i", "n", "i", "n", "g" >>,
       keywords |-> << << "C", "C", "1", ".", "1", ".", "3" >> >>,
       snippet |-> << "p", "o", "l", "i", "c", "y" >>],
       [id |-> << "b", "-", "2" >>, title |-> << "O", "n", "b", "o", "a", "r", "d", "i", "n", "g" >>,
       keywords |-> << << "h", "r" >> >>,
       snippet |-> << "t", "r", "a", "i", "n", "i", "n", "g", " ", "f", "o", "r", " ", "c", "c", "1", ".", "1", ".", "3" >>],
       [id |-> << "c", "-", "3" >>, title |-> << "A", "u", "d", "i", "t" >>,
       keywords |-> << << "c", "c", "1", ".", "1", ".", "3", "-", "e", "v", "i", "d", "e", "n", "c", "e" >> >>,
       snippet |-> << "c", "o", "n", "t", "r", "o", "l", "s" >>],
       [id |-> << "d", "-", "4" >>, title |-> << "V", "a", "c", "a", "t", "i", "o", "n" >>,
       keywords |-> << << "p", "t", "o" >> >>,
       snippet |-> << "d", "a", "y", "s", " ", "o", "f", "f" >>],
       [id |-> << "e", "-", "5" >>, title |-> << "H", "a", "n", "d", "b", "o", "o", "k" >>,
       keywords |-> << << "p", "e", "o", "p", "l", "e" >> >>,
       snippet |-> << "c", "c", "1", ".", "1", ".", "3", " ", "t", "r", "a", "i", "n", "i", "n", "g", " ", "n", "o", "t", "e", "s" >>],
       [id |-> << "f", "-", "6" >>, title |-> << "T", "r", "a", "i", "n", "i", "n", "g", " ", "P", "l", "a", "n" >>,
       keywords |-> << << "t", "r", "a", "i", "n", "i", "n", "g" >> >>,
       snippet |-> << "p", "l", "a", "n" >>],
       [id |-> << "g", "-", "7" >>, title |-> << "T", "R", "A", "I", "N", "I", "N", "G" >>,
       keywords |-> << << "T", "r", "a", "i", "n", "i", "n", "g" >>, << "t", "r", "a", "i", "n", "i", "n", "g", "-", "l", "o", "g" >> >>,
       snippet |-> << "l", "o", "g" >>] >>

\* the pages at `places`, in the order of IndexPages or in the reverse order
Snapshot(places, reversed) ==
    LET picked == SelectSeq([i \in DOMAIN IndexPages |-> i], LAMBDA i : i \in places)
    IN [i \in DOMAIN picked |->
           IndexPages[picked[IF reversed THEN Len(picked) + 1 - i ELSE i]]]

\* queries: the control and a word, words with a comma and a short one,
\* nothing but short words
IndexQueries ==
    { << "C", "C", "1", ".", "1", ".", "3", " ", "t", "r", "a", "i", "n", "i", "n", "g" >>,
      << "t", "r", "a", "i", "n", "i", "n", "g", ",", " ", "h", "r" >>,
      << "h", "r", " ", "i", "t" >> }

\* one searchLocalIndex call on a loaded snapshot: the pages it ranks
searchIndexCall(index, query, limit) ==
    /\ ask.pc = "idle"
    /\ ask' = [ask EXCEPT
                 !.pc = "searched",
                 !.result = [index |-> index, query |-> query, limit |-> limit,
                             pages |-> scoredPages(index, query, limit)]]
    /\ UNCHANGED << store, now, rmw, orch, triggers, held, http, mem >>

\* searchLocalIndex on every snapshot, query and limit
NextIndex ==
    /\ ask.pc = "idle"
    /\ \E places \in SUBSET (DOMAIN IndexPages), reversed \in BOOLEAN,
          query \in IndexQueries, limit \in { << >>, << 1 >>, << 2 >> } :
          searchIndexCall(Snapshot(places, reversed), query, limit)

SpecIndex == Init /\ [][NextIndex]_vars

(* ------------------- system-prompt.ts: getLocalPage --------------------- *)
\* s.replace(/-/g, '')
removeDashes(s) == SelectSeq(s, LAMBDA c : c # "-")

\* the predicate of index.pages.find (system-prompt.ts:305-311)
pageMatches(page, pageIdOrTitle) ==
    \/ page.id = pageIdOrTitle
    \/ removeDashes(page.id) = removeDashes(pageIdOrTitle)
    \/ toLowerCase(page.title) = toLowerCase(pageIdOrTitle)
    \/ includes(toLowerCase(page.title), toLowerCase(pageIdOrTitle))

\* a find that keeps the last page that matches
findLast(pages, pageIdOrTitle) ==
    LET matching == { i \in DOMAIN pages : pageMatches(pages[i], pageIdOrTitle) }
    IN IF matching = {} THEN 0
       ELSE CHOOSE i \in matching : \A j \in matching : j <= i

\* Array.prototype.find over index.pages (system-prompt.ts:304-313): the
\* place of the first page that matches, 0 for `if (!page) return null`
find(pages, pageIdOrTitle) ==
    LET matching == { i \in DOMAIN pages : pageMatches(pages[i], pageIdOrTitle) }
    IN IF matching = {} THEN 0
       ELSE CHOOSE i \in matching : \A j \in matching : i <= j

\* what getLocalPage returns: null, or the text built from the page found
\* (system-prompt.ts:315)
localPageText(pages, pageIdOrTitle) ==
    IF find(pages, pageIdOrTitle) = 0 THEN [null |-> TRUE, text |-> << >>]
    ELSE LET page == pages[find(pages, pageIdOrTitle)]
         IN [null |-> FALSE,
             text |-> << "# " >> \o page.title \o << "\n\n**Keywords:** " >>
                      \o page.keywords[1] \o << "\n\n" >> \o page.snippet]

\* identifiers: an id, the id without its separator, the id in capitals, a
\* title in another case, a part of several titles, and one of no page
PageIdentifiers ==
    { << "a", "-", "1" >>,
      << "a", "1" >>,
      << "A", "-", "1" >>,
      << "A", "U", "D", "I", "T" >>,
      << "t", "r", "a", "i", "n", "i", "n", "g" >>,
      << "z", "z", "z" >> }

\* getLocalPage(pageIdOrTitle) on a loaded snapshot
getPageCall(pages, pageIdOrTitle) ==
    /\ ask.pc = "idle"
    /\ ask' = [ask EXCEPT
                 !.pc = "fetched",
                 !.result = [index |-> pages, identifier |-> pageIdOrTitle,
                             place |-> find(pages, pageIdOrTitle),
                             page |-> localPageText(pages, pageIdOrTitle),
                             again |-> << >>]]
    /\ UNCHANGED << store, now, rmw, orch, triggers, held, http, mem >>

\* the same call once more, on the same snapshot
getPageAgain ==
    /\ ask.pc = "fetched"
    /\ ask' = [ask EXCEPT
                 !.pc = "refetched",
                 !.result.again =
                     << localPageText(ask.result.index, ask.result.identifier) >>]
    /\ UNCHANGED << store, now, rmw, orch, triggers, held, http, mem >>

\* getLocalPage on every snapshot and identifier, twice
NextPage ==
    \/ /\ ask.pc = "idle"
       /\ \E places \in SUBSET (DOMAIN IndexPages), reversed \in BOOLEAN,
             identifier \in PageIdentifiers :
             getPageCall(Snapshot(places, reversed), identifier)
    \/ getPageAgain

SpecPage == Init /\ [][NextPage]_vars

(* ---------------- system-prompt.ts: loading the snapshot ---------------- *)
\* the candidate locations of possiblePaths, in the listed order
CandidatePaths == { 1, 2, 3 }

\* JSON.parse(readFileSync(indexPath)): each location holds an export of its
\* own; the one at the third location has no pages
FileAt(path) ==
    [loaded |-> TRUE, from |-> path,
     pages |-> IF path = 3 THEN << >> ELSE << path >>]

\* a load without the `if (searchIndex) return searchIndex` of its first line
loadIndexUncached(cached, exists) ==
    IF exists = {}
    THEN [returned |-> NotLoaded, read |-> 0, cached |-> cached]
    ELSE LET path == CHOOSE q \in exists : \A o \in exists : q <= o
         IN [returned |-> FileAt(path), read |-> path, cached |-> FileAt(path)]

\* the body loadSearchIndex and loadFullIndex share (system-prompt.ts:
\* 170-191, 197-217): the cached value if there is one, else the file at the
\* first location that exists, read, parsed and cached, else the empty
\* snapshot ([] or null), which is not cached
loadIndex(cached, exists) ==
    IF cached.loaded
    THEN [returned |-> cached, read |-> 0, cached |-> cached]
    ELSE IF exists = {}
    THEN [returned |-> NotLoaded, read |-> 0, cached |-> cached]
    ELSE LET path == CHOOSE q \in exists : \A o \in exists : q <= o
         IN [returned |-> FileAt(path), read |-> path, cached |-> FileAt(path)]

\* loadSearchIndex() called while the locations of `exists` hold a file
loadSearchIndex(exists) ==
    /\ LET load == loadIndex(mem.searchIndex, exists)
       IN mem' = [mem EXCEPT
                    !.searchIndex = load.cached,
                    !.last = [fn |-> "loadSearchIndex", exists |-> exists,
                              returned |-> load.returned, read |-> load.read]]
    /\ UNCHANGED << store, now, rmw, orch, triggers, held, http, ask >>

\* loadFullIndex() called while the locations of `exists` hold a file
loadFullIndex(exists) ==
    /\ LET load == loadIndex(mem.fullIndex, exists)
       IN mem' = [mem EXCEPT
                    !.fullIndex = load.cached,
                    !.last = [fn |-> "loadFullIndex", exists |-> exists,
                              returned |-> load.returned, read |-> load.read]]
    /\ UNCHANGED << store, now, rmw, orch, triggers, held, http, ask >>

\* the two loads called again and again while exports come and go
NextLoad ==
    \/ \E exists \in SUBSET CandidatePaths : loadSearchIndex(exists)
    \/ \E exists \in SUBSET CandidatePaths : loadFullIndex(exists)

SpecLoad == Init /\ [][NextLoad]_vars

(* ----------------------- qa-store: searchQAPairs ------------------------ *)
\* the score of a pair with the query and the keywords compared as written
pairScoreAsWritten(pair, query) ==
    LET words == SplitFilter(query, { " " }, 3)
        perKeyword(keyword) ==
            (IF includes(query, keyword) THEN 5 ELSE 0)
            + 2 * Cardinality({ i \in DOMAIN words : includes(keyword, words[i]) })
        RECURSIVE sum(_)
        sum(k) == IF k = 0 THEN 0 ELSE perKeyword(pair.keywords[k]) + sum(k - 1)
    IN (IF includes(pair.q, query) THEN 10 ELSE 0) + sum(Len(pair.keywords))

\* part_003:23-47: the score of one pair; only the words of more than 3
\* characters of queryLower.split(/\s+/) can add to it
pairScore(pair, query) ==
    LET queryLower == toLowerCase(query)
        words == SplitFilter(queryLower, { " " }, 3)
        perKeyword(keyword) ==
            (IF includes(queryLower, toLowerCase(keyword)) THEN 5 ELSE 0)
            + 2 * Cardinality({ i \in DOMAIN words :
                                   includes(toLowerCase(keyword), words[i]) })
        RECURSIVE sum(_)
        sum(k) == IF k = 0 THEN 0 ELSE perKeyword(pair.keywords[k]) + sum(k - 1)
    IN (IF includes(toLowerCase(pair.q), queryLower) THEN 10 ELSE 0)
       + sum(Len(pair.keywords))

\* part_003:51-55: filter(score > 0), sort, slice(0, 3); the matches are
\* given by their places among the stored pairs
topPairs(pairs, query) ==
    LET scored == [i \in DOMAIN pairs |->
                      [place |-> i, score |-> pairScore(pairs[i], query)]]
        sorted == SortByScore(SelectSeq(scored, LAMBDA item : item.score > 0))
    IN SubSeq(sorted, 1, IF Len(sorted) < 3 THEN Len(sorted) ELSE 3)

\* approved pairs as config/qa-pairs.json holds them: id, question, keywords
StoredPairs ==
    << [id |-> << "1" >>,
       q |-> << "I", "s", " ", "Z", "e", "n", "l", "y", "t", "i", "c", " ", "S", "O", "C", "2", " ", "c", "e", "r", "t", "i", "f", "i", "e", "d", "?" >>,
       keywords |-> << << "s", "o", "c", "2" >> >>],
       [id |-> << "2" >>,
       q |-> << "W", "h", "e", "r", "e", " ", "i", "s", " ", "d", "a", "t", "a", " ", "s", "t", "o", "r", "e", "d", "?" >>,
       keywords |-> << << "d", "a", "t", "a" >>, << "s", "t", "o", "r", "a", "g", "e" >> >>],
       [id |-> << "3" >>,
       q |-> << "D", "o", "e", "s", " ", "Z", "e", "n", "l", "y", "t", "i", "c", " ", "h", "a", "v", "e", " ", "S", "O", "C", "2", "?" >>,
       keywords |-> << << "c", "o", "m", "p", "l", "i", "a", "n", "c", "e" >> >>],
       [id |-> << "4" >>,
       q |-> << "S", "e", "c", "u", "r", "i", "t", "y", " ", "o", "v", "e", "r", "v", "i", "e", "w" >>,
       keywords |-> << << "z", "e", "n", "l", "y", "t", "i", "c", "-", "s", "e", "c", "u", "r", "i", "t", "y" >> >>],
       [id |-> << "5" >>,
       q |-> << "S", "O", "C", "2", " ", "r", "e", "p", "o", "r", "t", "?" >>,
       keywords |-> << << "S", "O", "C", "2" >>, << "s", "o", "c", "2", " ", "r", "e", "p", "o", "r", "t" >> >>] >>

\* the pairs at `places`, in the order of StoredPairs or in the reverse order
PairList(places, reversed) ==
    LET picked == SelectSeq([i \in DOMAIN StoredPairs |-> i], LAMBDA i : i \in places)
    IN [i \in DOMAIN picked |->
           StoredPairs[picked[IF reversed THEN Len(picked) + 1 - i ELSE i]]]

PairQueries ==
    { << "d", "o", "e", "s", " ", "z", "e", "n", "l", "y", "t", "i", "c", " ", "h", "a", "v", "e", " ", "s", "o", "c", "2" >>,
      << "D", "a", "t", "a" >>,
      << "s", "s", "o" >> }

\* one searchQAPairs call on the stored pairs: the pairs it ranks
searchPairsCall(pairs, query) ==
    /\ ask.pc = "idle"
    /\ ask' = [ask EXCEPT
                 !.pc = "matched",
                 !.result = [pairs |-> pairs, query |-> query,
                             matches |-> topPairs(pairs, query)]]
    /\ UNCHANGED << store, now, rmw, orch, triggers, held, http, mem >>

\* searchQAPairs on every list of stored pairs and every query
NextPairs ==
    /\ ask.pc = "idle"
    /\ \E places \in SUBSET (DOMAIN StoredPairs), reversed \in BOOLEAN,
          query \in PairQueries :
          searchPairsCall(PairList(places, reversed), query)

SpecPairs == Init /\ [][NextPairs]_vars

(* ------------------------- claims: the Job Store ------------------------ *)
StatusRank(st) == IF st = "pending" THEN 0 ELSE IF st = "processing" THEN 1 ELSE 2

\* status b may follow status a in the stored record
Forward(a, b) ==
    \/ a = b
    \/ a \notin {"completed", "failed"} /\ StatusRank(a) <= StatusRank(b)

\* C1: the persisted status of a job only moves forward: pending ->
\* processing -> completed, or pending/processing -> failed; no write takes
\* a completed job back to processing or pending, or a processing job back to
\* pending.
C1_StatusNeverReverts ==
    [][\A id \in (DOMAIN store) \cap (DOMAIN store') :
          Forward(store[id].status, store'[id].status)]_vars

\* p is x rounded to the nearest integer, halves up, for x = num / den
IsRounded(p, num, den) == 2 * p * den <= 2 * num + den /\ 2 * num + den < 2 * (p + 1) * den

C3_ResultsWithinQuestions ==
    \A id \in DOMAIN store : Len(store[id].results) <= Len(store[id].questions)

\* C4: without a top-level error, a persisted job is completed exactly when
\* results.length = questions.length.
C4_CompletedIffAllResults ==
    \A id \in DOMAIN store :
        store[id].error = Undefined =>
            (store[id].status = "completed"
                <=> Len(store[id].results) = Len(store[id].questions))

(* ----------------------- claims: the orchestrator ----------------------- *)
\* batch-background has answered a POST for job id
BgAnswered(id) ==
    /\ http.fn = "batch-background"
    /\ http.statusCode # 405
    /\ http.jobId = id

\* C5: fault isolation: when the background handler has ended for a job of n
\* questions, the job is completed with exactly n results, the i-th for the
\* i-th question: the engine's answer and citations, or an empty answer, no
\* citations and an error when the engine threw for that question.
C5_FaultIsolation ==
    \A id \in DOMAIN store :
        BgAnswered(id) =>
            LET job == store[id]
            IN /\ job.status = "completed"
               /\ Len(job.results) = Len(job.questions)
               /\ \A i \in 1..Len(job.results) :
                     job.results[i] \in { OkResult(job.questions[i]),
                                          ErrResult(job.questions[i]) }

PolledTerminal(id) ==
    /\ http.fn = "batch-status"
    /\ http.statusCode = 200
    /\ "status" \in DOMAIN http
    /\ http.jobId = id
    /\ http.status \in {"completed", "failed"}

\* C7: every job created through batch-start eventually has a terminal status
\* (completed or failed) that a batch-status poll returns.
C7_EventuallyTerminal ==
    \A id \in JobIds : [](id \in held => <>PolledTerminal(id))

\* the store calls of the orchestrator in flight on job id
InFlight(id) == { c \in OrchCalls : rmw[c] # Idle /\ rmw[c].id = id }

UseIds(content) ==
    LET RECURSIVE Ids(_)
        Ids(k) == IF k = 0 THEN << >>
                  ELSE IF content[k].type = "tool_use"
                       THEN Append(Ids(k - 1), content[k].id)
                       ELSE Ids(k - 1)
    IN Ids(Len(content))

\* turn u answers turn a: a user turn of tool_result entries, one per
\* tool_use block of a, same correlation ids, same order
Answers(u, a) ==
    /\ u.role = "user"
    /\ \A k \in DOMAIN u.content : u.content[k].type = "tool_result"
    /\ [k \in DOMAIN u.content |-> u.content[k].tool_use_id] = UseIds(a.content)

\* C9: the transcript is turn-balanced: the response handled as tool use is
\* appended as the assistant turn, and every assistant turn is followed, before
\* the next provider call, by one user turn holding exactly one tool_result per
\* tool_use block, same correlation id, same order.
C9_TurnBalanced ==
    /\ \A i \in 1..Len(ask.messages) :
          ask.messages[i].role = "assistant" =>
              /\ i < Len(ask.messages)
              /\ Answers(ask.messages[i + 1], ask.messages[i])
    /\ (ask.pc = "calling" /\ ask.calls > 0) =>
          /\ Len(ask.messages) >= 3
          /\ ask.messages[Len(ask.messages) - 1] =
                [role |-> "assistant", content |-> ask.response.content]

\* a response with two tool_use blocks was handled and the provider is being
\* called again
C9_Witness ==
    /\ ask.pc = "calling"
    /\ ask.calls > 0
    /\ Len(UseIds(ask.response.content)) = 2
    /\ Len(ask.messages[Len(ask.messages)].content) = 2

HasToolUse(response) ==
    \E i \in DOMAIN response.content : response.content[i].type = "tool_use"

C11_RoundTripsCapped ==
    [][(ask.pc = "responded" /\ ask.calls = MaxCalls /\ ContinuesLoop(ask.response))
          => ask'.pc # "calling"]_vars

\* C12: batch-background invoked by POST with a job id that has no record in
\* the store answers 404 (and, answering, leaves no store call in flight and
\* no loop running).
C12_AbsentJobNotFound ==
    (/\ http.fn = "batch-background"
     /\ http.statusCode \notin {400, 405}
     /\ http.jobId \notin DOMAIN store)
        => /\ http.statusCode = 404
           /\ orch = NotRunning
           /\ \A c \in OrchCalls : rmw[c] = Idle

\* C13: a job-level fatal failure of batch-background (the catch of line 80,
\* answered with 500) leaves the stored job failed, with a top-level error and
\* without results for questions that were not processed.
C13_FatalFailureMarksFailed ==
    (/\ http.fn = "batch-background"
     /\ http.statusCode = 500
     /\ http.jobId \in DOMAIN store)
        => /\ store[http.jobId].status = "failed"
           /\ store[http.jobId].error # Undefined
           /\ store[http.jobId].results = << >>

\* the step is the write of an addResult call on job id
IsAddResultWrite(id) ==
    \E c \in Callers \cup OrchCalls :
        /\ rmw[c] # Idle
        /\ rmw[c].op = "addResult"
        /\ rmw[c].read
        /\ rmw[c].id = id
        /\ rmw'[c] = Idle

\* C14: addResult is the sole writer of a job's progress and of its completed
\* status: every step that changes the stored progress of a job, or that
\* makes its stored status completed, is the write of an addResult call.
C14_AddResultSoleWriter ==
    [][\A id \in (DOMAIN store) \cap (DOMAIN store') :
          (\/ store'[id].progress # store[id].progress
           \/ (store'[id].status = "completed" /\ store[id].status # "completed"))
              => IsAddResultWrite(id)]_vars

C16_NeverDeletesFreshJob ==
    [][\A id \in (DOMAIN store) \ (DOMAIN store') :
          store[id].updatedAt < now - 60 * Minute]_vars

(* ---------------------------- claims: createJob ------------------------ *)
\* C17: createJob never overwrites an existing record: the id it generates
\* differs from the id of every job already stored, so every stored job
\* keeps the questions and instructions it was created with.
C17_CreateNeverOverwrites ==
    [][\A id \in (DOMAIN store) \cap (DOMAIN store') :
          /\ store'[id].questions = store[id].questions
          /\ store'[id].instructions = store[id].instructions]_vars

(* --------------------------- claims: batch-start ------------------------ *)
\* C18: batch-start persists the new job (pending, no results, progress 0)
\* before it triggers the background handler and answers 202, and answers
\* without any orchestrator step: every job id a client holds has a record in
\* the store, so that a batch-status poll for it finds the job.
C18_HeldJobIsStored ==
    /\ [](\A id \in held : id \in DOMAIN store)
    /\ [][\A id \in held' \ held :
             /\ id \in DOMAIN store'
             /\ store'[id].status = "pending"
             /\ store'[id].results = << >>
             /\ store'[id].progress = 0
             /\ id \in triggers'
             /\ orch' = orch
             /\ rmw' = rmw]_vars

\* a client polled batch-status for a job id it holds and got the pending job
C18_Witness ==
    /\ http.fn = "batch-status"
    /\ http.statusCode = 200
    /\ "jobId" \in DOMAIN http
    /\ http.jobId \in held
    /\ http.status = "pending"
    /\ http.processed = 0

(* ------------------------ claims: tool results ------------------------- *)
\* text p is the beginning of text t
RECURSIVE IsPrefix(_, _)
IsPrefix(p, t) ==
    \/ p = << >>
    \/ /\ t # << >>
       /\ Head(p)[1] = Head(t)[1]
       /\ \/ Head(p)[2] = Head(t)[2] /\ IsPrefix(Tail(p), Tail(t))
          \/ Head(p)[2] < Head(t)[2] /\ Tail(p) = << >>

\* C20: every tool_result content in the transcript has at most 10,000
\* characters, and the contents appended by the last pass of the loop are the
\* beginnings of the texts the tool calls returned: the whole text when it
\* has at most 10,000 characters, its first 10,000 otherwise.
C20_ToolResultTruncated ==
    /\ \A i \in 2..Len(ask.messages) :
          ask.messages[i].role = "user" =>
              \A k \in DOMAIN ask.messages[i].content :
                  TextLen(ask.messages[i].content[k].content) <= 10000
    /\ ask.results # << >> =>
          LET last == ask.messages[Len(ask.messages)].content
          IN /\ Len(last) = Len(ask.results)
             /\ \A k \in DOMAIN last :
                   /\ IsPrefix(last[k].content, ask.results[k])
                   /\ TextLen(last[k].content) =
                         IF TextLen(ask.results[k]) <= 10000
                         THEN TextLen(ask.results[k]) ELSE 10000

\* a tool call returned 10,001 characters and its tool_result holds 10,000
C20_Witness ==
    /\ ask.results # << >>
    /\ \E k \in DOMAIN ask.results :
          /\ TextLen(ask.results[k]) = 10001
          /\ TextLen(ask.messages[Len(ask.messages)].content[k].content) = 10000

\* C19: malformed tool arguments never crash a turn: for every tool name and
\* every argument object, processToolCall returns a string and does not
\* throw, so no tool call of askQuestion throws.
C19_ToolCallNeverThrows ==
    /\ ask.pc # "thrown"
    /\ \A i \in 1..Len(ask.searches) : ~ask.searches[i].outcome.throws

(* ------------------------- claims: the tool router ---------------------- *)
\* the names of the TOOLS array (notion-tools.ts:156-261)
TOOLS ==
    { "search_notion", "get_notion_page", "search_qa_pairs", "search_docs",
      "get_docs_page" }

\* C21: a tool invocation whose name is outside the fixed tool set does not
\* throw: processToolCall returns the text "Unknown tool: <name>", which the
\* loop of askQuestion then pairs with a tool_result like every returned text.
C21_UnknownToolIsText ==
    (ask.pc # "idle" /\ ask.result.name \notin TOOLS) =>
        /\ ask.pc = "routed"
        /\ ~ask.result.outcome.throws
        /\ ask.result.outcome.result =
              << << "Unknown tool: ", 1 >>, << ask.result.name, 1 >> >>

\* processToolCall was called with a name the switch lacks, and returned
C21_Witness ==
    /\ ask.pc = "routed"
    /\ ask.result.name = "other"

(* --------------------- claims: answer and citations -------------------- *)
\* the texts of the text blocks of the last response, in their order
FinalTexts ==
    [i \in DOMAIN TextBlocks(ask.response.content) |->
        TextBlocks(ask.response.content)[i].text]

\* the bracketed substrings of a text, each as << i, k >>, the places of its
\* "[" and its "]": something stands between the two, none of it a "]", and
\* no earlier "[" reaches i without a "]" in between
Bracketed(answer) ==
    { ik \in (1..Len(answer)) \X (1..Len(answer)) :
        /\ ik[1] + 1 < ik[2]
        /\ answer[ik[1]] = "[" /\ answer[ik[2]] = "]"
        /\ \A j \in (ik[1] + 1)..(ik[2] - 1) : answer[j] # "]"
        /\ \A j \in 1..(ik[1] - 1) :
              answer[j] = "[" => \E m \in (j + 1)..(ik[1] - 1) : answer[m] = "]" }

\* where citation c first stands in the answer
FirstPlace(answer, c) ==
    LET places == { ik[1] : ik \in { x \in Bracketed(answer) :
                                       SubSeq(answer, x[1] + 1, x[2] - 1) = c } }
    IN CHOOSE i \in places : \A j \in places : i <= j

\* the citations are the contents of the bracketed substrings of the answer,
\* none twice, in the order of their first places
CitationsOf(answer, cites) ==
    /\ \A i, j \in DOMAIN cites : i # j => cites[i] # cites[j]
    /\ { cites[i] : i \in DOMAIN cites } =
          { SubSeq(answer, ik[1] + 1, ik[2] - 1) : ik \in Bracketed(answer) }
    /\ \A i, j \in DOMAIN cites :
          i < j <=> FirstPlace(answer, cites[i]) < FirstPlace(answer, cites[j])

\* C22 as stated: the answer is the text segments of the final response
\* concatenated in their order, and the citations are the contents of the
\* bracketed substrings of the answer, duplicates removed, first-seen order
\* kept.
C22_AnswerConcatenated ==
    ask.pc = "done" =>
        /\ ask.result.answer = Join(FinalTexts, << >>)
        /\ CitationsOf(ask.result.answer, ask.result.citations)

\* C22 amended: the answer is the text segments of the final response in
\* their order with a newline between consecutive segments, and the citations
\* are the contents of the bracketed substrings of that answer, no citation
\* twice, a before b exactly when a first stands before b in the answer.
C22_AnswerJoinedByNewline ==
    ask.pc = "done" =>
        /\ ask.result.answer = Join(FinalTexts, << "\n" >>)
        /\ CitationsOf(ask.result.answer, ask.result.citations)

\* two text segments were joined, and a citation that stands twice in the
\* answer after another one was returned once, in first place
C22_Witness ==
    /\ ask.pc = "done"
    /\ Len(FinalTexts) = 2
    /\ Cardinality(Bracketed(ask.result.answer)) = 3
    /\ Len(ask.result.citations) = 2
    /\ FirstPlace(ask.result.answer, ask.result.citations[2]) >
          FirstPlace(ask.result.answer, ask.result.citations[1])
    /\ \E x, y \in Bracketed(ask.result.answer) :
          /\ x[1] < y[1]
          /\ SubSeq(ask.result.answer, x[1] + 1, x[2] - 1) = ask.result.citations[1]
          /\ SubSeq(ask.result.answer, y[1] + 1, y[2] - 1) = ask.result.citations[1]

(* ------------------------ claims: getNotionPage ------------------------ *)
\* C23: getNotionPage resolves aliases before the remote call: for an
\* identifier that is a key of the control-identifier table, compared without
\* regard to case, or a named shortcut, the id passed to pages.retrieve and
\* to every blocks.children.list call is the mapped identifier; every other
\* identifier is passed as it is.
C23_AliasesResolvedBeforeRemote ==
    (/\ ask.pc = "routed"
     /\ ask.result.name = "get_notion_page"
     /\ ask.result.input.page_id # Undefined) =>
        LET id == ask.result.input.page_id
            mapped == IF lowerAlias(id) \in DOMAIN aliases
                      THEN aliases[lowerAlias(id)]
                      ELSE IF upperControl(id) \in DOMAIN CC_CONTROLS
                      THEN CC_CONTROLS[upperControl(id)]
                      ELSE id
        IN /\ ask.result.calls # << >>
           /\ \A i \in DOMAIN ask.result.calls : ask.result.calls[i].arg = mapped

(* ------------------------ claims: the handlers -------------------------- *)
\* a response no handler gives before its work: the engine was called, or
\* the Job Store or the Q&A store was read or written
AfterWork(h) ==
    \/ h.fn = "ask" /\ h.method = "POST" /\ h.statusCode \in { 200, 500 }
    \/ h.fn = "batch" /\ h.method = "POST" /\ h.statusCode = 200
    \/ h.fn = "batch-start" /\ h.statusCode = 202
    \/ h.fn = "batch-status" /\ h.method = "GET" /\ h.statusCode \in { 404, 200 }
    \/ h.fn = "batch-background" /\ h.statusCode \in { 404, 500, 200 }
    \/ h.fn = "qa-pairs" /\ h.method = "GET" /\ h.statusCode = 200
    \/ h.fn = "qa-pairs" /\ h.statusCode = 201

\* C24: every handler that does work (ask, batch, batch-start, batch-status,
\* batch-background, qa-pairs) rejects a request without a valid session
\* cookie before it calls the Answering Engine or reads or mutates the Job
\* Store or the Q&A store: no response that follows such work, and no
\* running batch loop, belongs to a request without a valid cookie.
C24_NoWorkWithoutSession ==
    /\ http # NoResponse /\ AfterWork(http) => http.cookie = "valid"
    /\ orch # NotRunning => orch.cookie = "valid"

\* C25: POST /api/batch processes at most 10 questions per request: more
\* than 10 are answered 400 before any engine call; 1 to 10 questions give
\* 200 with processed = total = the number of questions and one result per
\* question in input order, the result of a failed question carrying an
\* error while the questions after it are still processed.
C25_BatchBounded ==
    /\ orch.pc = "batch" =>
          /\ Len(orch.questions) \in 1..10
          /\ Len(orch.results) <= Len(orch.questions)
          /\ \A i \in 1..Len(orch.results) :
                /\ orch.results[i].id = orch.questions[i].id
                /\ (orch.results[i].error # Undefined) <=> (orch.outcomes[i] = "throws")
    /\ http # NoResponse /\ http.fn = "batch" /\ http.method = "POST"
          /\ http.statusCode = 200 =>
          /\ http.total \in 1..10
          /\ http.processed = http.total
          /\ Len(http.results) = http.total
          /\ \A i \in 1..http.total :
                /\ http.results[i].id = http.questions[i].id
                /\ (http.results[i].error # Undefined) <=> (http.outcomes[i] = "throws")

\* a batch of ten whose third question failed and whose later ones succeeded,
\* answered 200
C25_Witness ==
    /\ http # NoResponse /\ http.fn = "batch" /\ http.statusCode = 200
    /\ http.method = "POST" /\ http.total = 10
    /\ http.results[3].error # Undefined
    /\ http.results[10].error = Undefined
\* the place of a part in a text, 0 if it is not in it
PlaceOf(text, part) ==
    IF \E j \in 1..Len(text) : text[j] = part
    THEN CHOOSE j \in 1..Len(text) : text[j] = part
    ELSE 0

C27_LocalIndexFirst ==
    /\ ask.pc = "routed"
          /\ ask.result.name \in { "search_notion", "get_notion_page" }
          /\ ask.result.env.snapshot
          => ask.result.calls = << >>
    /\ \A q \in { "query", "" } :
          searchLocalIndex(q, DefaultEnv).result
             # searchLocalIndex(q, [DefaultEnv EXCEPT !.snapshot = TRUE]).result
\* the source a tool call went to could not complete its operation: a call
\* to the remote API was rejected, or the docs folder could not be read
SourceFails(name, env) ==
    CASE name = "search_notion" -> env.searchFails \/ env.unavailable # {}
      [] name = "get_notion_page" -> env.retrieveFails \/ env.listFailsAt > 0
      [] name \in { "search_docs", "get_docs_page" } -> env.unreadable
      [] OTHER -> FALSE

\* the argument the tool reads from its input
Argument(name, input) ==
    CASE name \in { "search_notion", "search_docs" } -> input.query
      [] name = "get_notion_page" -> input.page_id
      [] name = "get_docs_page" -> input.page_path
      [] OTHER -> Undefined

\* C28: a retrieval source that cannot complete its operation returns a
\* text instead of raising: when the remote API fails during searchNotion or
\* getNotionPage, or a read of the docs folder fails during searchDocs or
\* getDocsPage, the call (made with its argument) returns a non-empty text
\* and throws nothing; a failed remote search or page fetch returns the
\* text that names the error.
C28_SourceFailureIsText ==
    (/\ ask.pc # "idle"
     /\ SourceFails(ask.result.name, ask.result.env)
     /\ Argument(ask.result.name, ask.result.input) # Undefined) =>
        /\ ask.pc = "routed"
        /\ ~ask.result.outcome.throws
        /\ TextLen(ask.result.outcome.result) > 0
        /\ ask.result.name = "search_notion" /\ ask.result.env.searchFails =>
              IsPrefix(Lit("Error searching Notion: "), ask.result.outcome.result)
        /\ ask.result.name = "get_notion_page" =>
              IsPrefix(Lit("Error fetching page: "), ask.result.outcome.result)
        /\ ask.result.name = "get_docs_page" /\ ask.result.env.files > 0 =>
              IsPrefix(Lit("Error reading page: "), ask.result.outcome.result)

\* a page of the docs folder that is there could not be read, and the call
\* returned
C28_Witness ==
    /\ ask.pc = "routed"
    /\ ask.result.name = "get_docs_page"
    /\ ask.result.env.unreadable /\ ask.result.env.files > 0
    /\ ask.result.input.page_path = "plain words"
\* the search of `env` with every block fetch answered
AllAvailable(env) == [env EXCEPT !.unavailable = {}]

\* C29: searchNotion tolerates partial failure per page: when the block
\* fetch fails for some matched pages, every matched page up to five still
\* appears in the result, in match order and with its block fetch attempted;
\* a failed page carries its title and the 'Content preview unavailable'
\* marker, and the section of every other page is what it is when no fetch
\* fails.
C29_PartialFailurePerPage ==
    (/\ ask.pc # "idle"
     /\ ask.result.name = "search_notion"
     /\ ask.result.input.query # Undefined
     /\ ~ask.result.env.searchFails
     /\ ask.result.env.matched > 0) =>
        LET env == ask.result.env
            n == IF env.matched < 5 THEN env.matched ELSE 5
            section(i) ==
                IF i \in env.unavailable
                THEN Lit("## ") \o Title(Page(i, env))
                        \o Lit("\n[Content preview unavailable]")
                ELSE PageSection(Page(i, AllAvailable(env)), AllAvailable(env)).result
        IN /\ ask.pc = "routed"
           /\ ask.result.outcome.result =
                 Join([i \in 1..n |-> section(i)], Lit("\n\n---\n\n"))
           /\ Len(ask.result.calls) = n + 1
           /\ \A i \in 1..n : ask.result.calls[i + 1].arg = i

\* five pages matched, the block fetch failed for the second and the fourth
C29_Witness ==
    /\ ask.pc = "routed"
    /\ ask.result.name = "search_notion"
    /\ ask.result.input.query = "plain words"
    /\ ask.result.env.matched = 5
    /\ ask.result.env.unavailable = { 2, 4 }
(* ------------------------ claims: the search trace ---------------------- *)
\* name and arguments of the tool_use blocks of the assistant turns of a
\* transcript, in the order of the transcript
RECURSIVE Invoked(_)
Invoked(messages) ==
    IF messages = << >> THEN << >>
    ELSE LET m == messages[Len(messages)]
             before == Invoked(SubSeq(messages, 1, Len(messages) - 1))
         IN IF m.role = "assistant"
            THEN before \o [i \in 1..Len(ToolUseBlocks(m.content)) |->
                               << ToolUseBlocks(m.content)[i].name,
                                  ToolUseBlocks(m.content)[i].input >>]
            ELSE before

\* the trace of call `a` holds one entry per tool invocation of the passes
\* completed, in their order, and the result returns that trace
TraceComplete(a) ==
    /\ a.pc \in { "calling", "responded", "done" } => a.searches = Invoked(a.messages)
    /\ a.pc = "done" => a.result.searches = a.searches

\* C30: the search trace of askQuestion is append-only and complete: it has
\* exactly one entry (tool name and arguments) per tool invocation executed,
\* in execution order, and it is what askQuestion returns; no step of
\* askQuestion writes the Job Store or the Q&A store.
C30_TraceAppendOnlyComplete ==
    [][/\ Len(ask.searches) <= Len(ask'.searches)
       /\ SubSeq(ask'.searches, 1, Len(ask.searches)) = ask.searches
       /\ TraceComplete(ask')
       /\ store' = store
       /\ mem' = mem]_vars

\* askQuestion returned after a pass of two tool invocations with different
\* arguments
C30_Witness ==
    /\ ask.pc = "done"
    /\ Len(ask.result.searches) = 2
    /\ ask.result.searches[1] # ask.result.searches[2]
(* --------------------- claims: the Job Store, continued ----------------- *)
\* caller c completes an updateJob call in this step by writing
UpdateWrites(c) ==
    /\ rmw[c] # Idle /\ rmw'[c] = Idle
    /\ rmw[c].op = "updateJob"
    /\ rmw[c].read

\* caller c completes a call in this step whose getJob found no record
ReturnsNotFound(c) ==
    /\ rmw[c] # Idle /\ rmw'[c] = Idle
    /\ ~rmw[c].read

\* C31: updateJob is a read-modify-write that always refreshes updatedAt: on
\* an existing id it persists the record it read overlaid with the given
\* fields and with updatedAt set to the clock of the call, also when the
\* given fields hold an updatedAt, and leaves the other keys alone; on an
\* absent id it returns not-found and writes nothing.
C31_UpdateRefreshesTimestamp ==
    [][\A c \in Callers :
          /\ UpdateWrites(c) =>
                LET id == rmw[c].id
                    read == rmw[c].job
                    given == rmw[c].arg
                IN /\ DOMAIN store' = DOMAIN store \cup { id }
                   /\ \A k \in DOMAIN store \ { id } : store'[k] = store[k]
                   /\ store'[id].updatedAt = now
                   /\ \A f \in DOMAIN read \ { "updatedAt" } :
                         store'[id][f] = IF f \in DOMAIN given THEN given[f]
                                         ELSE read[f]
          /\ ReturnsNotFound(c) =>
                /\ rmw[c].id \notin DOMAIN store
                /\ store' = store]_vars

\* an update that gave an updatedAt of 0 was persisted after the clock had
\* moved on, and the stored updatedAt is the clock's
C31_Witness ==
    \E id \in DOMAIN store :
        /\ store[id].status = "failed"
        /\ store[id].error = "message"
        /\ now > 0
        /\ store[id].updatedAt = now
(* ------------------------ claims: the local index ----------------------- *)
\* the scores of the pages of IndexPages, by the first character of the
\* page id, for the queries 'CC1.1.3 training' (exact control keyword 10 + 15
\* and title 8 for page a; snippet 3 + 3 for b and e; containing keyword 5
\* for c; exact keyword 10 and title 8 for f and g), 'training, hr' and
\* 'hr it'; page g has the keyword 'Training' and the keyword
\* 'training-log', which contains the token: `both` is what the two together
\* are worth
ExpectedScore(query, page, both) ==
    LET p == page.id[1]
    IN IF query = << "C", "C", "1", ".", "1", ".", "3", " ", "t", "r", "a", "i", "n", "i", "n", "g" >>
       THEN CASE p = "a" -> 33 [] p = "b" -> 6 [] p = "c" -> 5 [] p = "d" -> 0
              [] p = "e" -> 6 [] p = "f" -> 18 [] p = "g" -> both + 8
       ELSE IF query = << "t", "r", "a", "i", "n", "i", "n", "g", ",", " ", "h", "r" >>
       THEN CASE p = "a" -> 8 [] p = "b" -> 3 [] p = "c" -> 0 [] p = "d" -> 0
              [] p = "e" -> 3 [] p = "f" -> 18 [] p = "g" -> both + 8
       ELSE 0

\* the call returned the pages with a score above 0 in non-increasing score
\* order, ties in snapshot order, at most `limit` of them (5 when no limit is
\* given), with the scores of ExpectedScore
RankedBy(both) ==
    ask.pc = "searched" =>
       LET r == ask.result
           score(i) == ExpectedScore(r.query, r.index[i], both)
           positive == { i \in DOMAIN r.index : score(i) > 0 }
           limit == IF r.limit = << >> THEN 5 ELSE r.limit[1]
           returned == { r.pages[k].place : k \in DOMAIN r.pages }
       IN /\ \A k \in DOMAIN r.pages :
                /\ r.pages[k].place \in positive
                /\ r.pages[k].score = score(r.pages[k].place)
          /\ \A j, k \in DOMAIN r.pages :
                j < k => \/ score(r.pages[j].place) > score(r.pages[k].place)
                         \/ /\ score(r.pages[j].place) = score(r.pages[k].place)
                            /\ r.pages[j].place < r.pages[k].place
          /\ Len(r.pages) = IF Cardinality(positive) < limit
                            THEN Cardinality(positive) ELSE limit
          /\ \A i \in positive \ returned : \A k \in DOMAIN r.pages :
                \/ score(r.pages[k].place) > score(i)
                \/ score(r.pages[k].place) = score(i) /\ r.pages[k].place < i

\* C32 as stated: searchLocalIndex returns the pages with a score above 0 in
\* non-increasing score order, ties in snapshot order, at most `limit` of
\* them (default 5), the score being the sum over the query tokens longer
\* than 2 characters of +10 exact keyword match, +5 keyword containing the
\* token, +8 title substring, +3 snippet substring and +15 for a control
\* identifier that is an exact keyword: a page with an exact keyword and
\* another keyword containing the token earns 10 + 5.
C32_KeywordScoresAdd == RankedBy(10 + 5)

\* C32, amended: as above, with +10 when a keyword equals the token and +5
\* only when none does and some keyword contains it; for 'CC1.1.3 training'
\* the page with keyword 'CC1.1.3' and 'training' in its title outranks the
\* pages that match on snippet text only.
C32_LocalSearchRanking == RankedBy(10)

\* 'CC1.1.3 training' on the seven pages in reverse order with no limit
\* given: five of the six matching pages are returned, page a first, then the
\* two pages that tie at 18 in snapshot order
C32_Witness ==
    /\ ask.pc = "searched"
    /\ ask.result.query = << "C", "C", "1", ".", "1", ".", "3", " ", "t", "r", "a", "i", "n", "i", "n", "g" >>
    /\ ask.result.limit = << >>
    /\ Len(ask.result.index) = 7
    /\ ask.result.index[1].id[1] = "g"
    /\ Len(ask.result.pages) = 5
    /\ ask.result.index[ask.result.pages[1].place].id[1] = "a"
    /\ ask.result.index[ask.result.pages[2].place].id[1] = "g"
    /\ ask.result.index[ask.result.pages[3].place].id[1] = "f"
(* ------------------------ claims: the Q&A store -------------------------- *)
\* the scores of the pairs of StoredPairs by their id: for 'does zenlytic
\* have soc2' pair 1 has its keyword in the query (5) and the word soc2 in
\* its keyword (2), pair 3 has the query in its question (10), pair 4 the
\* word zenlytic in its keyword (2), pair 5 one keyword in the query (5) and
\* the word soc2 in both keywords (2 + 2); for 'Data' pair 2 has the query in
\* its question (10), a keyword in the query (5) and the word in it (2)
PairScoreById(query, pair) ==
    LET p == pair.id[1]
    IN IF query = << "d", "o", "e", "s", " ", "z", "e", "n", "l", "y", "t", "i", "c", " ", "h", "a", "v", "e", " ", "s", "o", "c", "2" >>
       THEN CASE p = "1" -> 7 [] p = "2" -> 0 [] p = "3" -> 10 [] p = "4" -> 2
              [] p = "5" -> 9
       ELSE IF query = << "D", "a", "t", "a" >> THEN (IF p = "2" THEN 17 ELSE 0)
       ELSE 0

\* C33: searchQAPairs returns at most the 3 highest-scoring stored pairs,
\* only pairs with a score above 0, in non-increasing score order; the score
\* is +10 if the query is a case-insensitive substring of the stored
\* question, +5 per keyword contained in the query and +2 per pair of a
\* keyword and a query word longer than 3 characters that the keyword
\* contains; for 'does zenlytic have soc2' the pair 'Is Zenlytic SOC2
\* certified?' with keyword 'soc2' is returned, and ranked first when no
\* other stored pair scores as much.
C33_TopThreePairs ==
    ask.pc = "matched" =>
       LET r == ask.result
           score(i) == PairScoreById(r.query, r.pairs[i])
           positive == { i \in DOMAIN r.pairs : score(i) > 0 }
           returned == { r.matches[k].place : k \in DOMAIN r.matches }
       IN /\ \A k \in DOMAIN r.matches :
                /\ r.matches[k].place \in positive
                /\ r.matches[k].score = score(r.matches[k].place)
          /\ Cardinality(returned) = Len(r.matches)
          /\ Len(r.matches) = IF Cardinality(positive) < 3
                              THEN Cardinality(positive) ELSE 3
          /\ \A j, k \in DOMAIN r.matches :
                j < k => score(r.matches[j].place) >= score(r.matches[k].place)
          /\ \A i \in positive \ returned : \A k \in DOMAIN r.matches :
                score(r.matches[k].place) >= score(i)
          /\ \A i \in DOMAIN r.pairs :
                (/\ r.query = << "d", "o", "e", "s", " ", "z", "e", "n", "l", "y", "t", "i", "c", " ", "h", "a", "v", "e", " ", "s", "o", "c", "2" >>
                 /\ r.pairs[i].id[1] = "1"
                 /\ \A j \in DOMAIN r.pairs : j # i => score(j) < score(i))
                => r.matches # << >> /\ r.matches[1].place = i

\* 'does zenlytic have soc2' on five stored pairs: three are returned, the
\* pair of the example among them behind the two that score more
C33_Witness ==
    /\ ask.pc = "matched"
    /\ ask.result.query = << "d", "o", "e", "s", " ", "z", "e", "n", "l", "y", "t", "i", "c", " ", "h", "a", "v", "e", " ", "s", "o", "c", "2" >>
    /\ Len(ask.result.pairs) = 5
    /\ Len(ask.result.matches) = 3
    /\ ask.result.pairs[ask.result.matches[3].place].id[1] = "1"
\* what a load step found in memory before, and left there
CachedBefore == IF mem'.last.fn = "loadSearchIndex" THEN mem.searchIndex
                ELSE mem.fullIndex
CachedAfter == IF mem'.last.fn = "loadSearchIndex" THEN mem'.searchIndex
               ELSE mem'.fullIndex

\* C34: the load of the Knowledge Index is idempotent and cached after the
\* first success: it reads the first existing candidate location in the
\* listed order; every later call returns the same snapshot without reading
\* storage again, whatever the locations hold by then; when no candidate
\* location exists it returns an empty snapshot, raises nothing and caches
\* nothing.
C34_LoadCachedAfterSuccess ==
    [][LET call == mem'.last
       IN /\ CachedBefore.loaded =>
                /\ call.returned = CachedBefore
                /\ call.read = 0
                /\ CachedAfter = CachedBefore
          /\ ~CachedBefore.loaded /\ call.exists = {} =>
                /\ call.returned.pages = << >>
                /\ ~call.returned.loaded
                /\ call.read = 0
                /\ ~CachedAfter.loaded
          /\ ~CachedBefore.loaded /\ call.exists # {} =>
                /\ call.read \in call.exists
                /\ \A path \in call.exists : call.read <= path
                /\ call.returned = FileAt(call.read)
                /\ CachedAfter = call.returned]_vars

\* the search index was loaded from the second location, and a later call,
\* made when the first location holds a file too, returned it without a read
C34_Witness ==
    /\ mem.last.fn = "loadSearchIndex"
    /\ mem.last.exists = { 1, 2 }
    /\ mem.last.read = 0
    /\ mem.last.returned = FileAt(2)
    /\ mem.searchIndex = FileAt(2)
\* the pages of IndexPages an identifier matches, by the first character
\* of their ids: 'a-1' and 'a1' are page a by its id, 'AUDIT' is the title of
\* page c, 'training' is in the titles of a and f and is the title of g;
\* 'A-1' and 'zzz' match no page
MatchedBy(identifier) ==
    IF identifier \in { << "a", "-", "1" >>, << "a", "1" >> } THEN { "a" }
    ELSE IF identifier = << "A", "U", "D", "I", "T" >> THEN { "c" }
    ELSE IF identifier = << "t", "r", "a", "i", "n", "i", "n", "g" >> THEN { "a", "f", "g" }
    ELSE {}

NoQuestions(q) == ~q.isArray \/ q.items = << >>

\* C36: every job persisted through batch-start has at least one question: an
\* authenticated POST whose questions field is missing, not an array or
\* empty is answered 400 and creates no job, so Len(job.questions), the
\* denominator of the progress computation, is never zero for a stored job.
C36_StoredJobsHaveQuestions ==
    [][ /\ \A id \in DOMAIN store' : Len(store'[id].questions) >= 1
        /\ \A qs \in QuestionsFields, ins \in InstructionsFields, r \in Rands :
              NoQuestions(qs) /\ batchStart("POST", "valid", qs, ins, r)
                 => /\ http'.statusCode = 400
                    /\ store' = store
                    /\ triggers' = triggers ]_vars

\* a job is stored and a later batch-start request was answered 400
C36_Witness ==
    /\ store # << >>
    /\ \E id \in DOMAIN store : Len(store[id].questions) = MaxQuestions
    /\ http.fn = "batch-start"
    /\ http.method = "POST"
    /\ http.cookie = "valid"
    /\ http.statusCode = 400
(* ------------------ claims: the Job Store, the frame -------------------- *)
\* the fields createJob sets once
IdentityFields == { "id", "questions", "instructions", "createdAt" }

\* the fields addResult assigns (job-store.ts:90-96)
ResultFields == { "results", "progress", "status", "updatedAt" }

\* the step is the setJSON of caller c's updateJob or addResult
Writes(c) == rmw[c] # Idle /\ rmw[c].read /\ rmw'[c] = Idle

\* C37: the identity fields of a persisted job are never changed after
\* creation: every write of addResult and of updateJob with the background
\* handler's arguments leaves id (equal to the store key), questions,
\* instructions and createdAt as they were, touches no other record, and
\* addResult changes only results, progress, status and updatedAt.
C37_IdentityFieldsKept ==
    [][ \A c \in Callers :
          Writes(c) =>
             LET id == rmw[c].id
             IN /\ id \in DOMAIN store
                /\ DOMAIN store' = DOMAIN store
                /\ \A k \in DOMAIN store \ {id} : store'[k] = store[k]
                /\ store'[id].id = id
                /\ \A f \in IdentityFields : store'[id][f] = store[id][f]
                /\ rmw[c].op = "addResult" =>
                      \A f \in (DOMAIN store[id]) \ ResultFields :
                         store'[id][f] = store[id][f] ]_vars

\* a job with instructions, created at 0, completed by addResult at 1
C37_Witness ==
    \E id \in DOMAIN store :
       /\ store[id].instructions = "instructions"
       /\ Len(store[id].questions) = 2
       /\ Len(store[id].results) = 2
       /\ store[id].status = "completed"
       /\ store[id].createdAt = 0
       /\ store[id].updatedAt = 1
(* --------------- claims: the Job Store, a failing read ------------------ *)
\* C38: a store read failure is treated as not-found: when the read of the
\* blob store throws, getJob returns null, and the updateJob or addResult
\* call that awaited it returns null and writes nothing, leaving the store
\* unchanged, whether or not the store holds a record under the id.
C38_ReadFailureIsNotFound ==
    [][ \A c \in Callers :
          getJobSettles(c, TRUE) =>
             /\ getJob(store, rmw[c].id, TRUE) = Null
             /\ rmw'[c] = Idle
             /\ store' = store
             /\ rmw[c].id \in mem'.errors ]_vars

\* the read of a call for a stored job has thrown and the call has returned:
\* no call is in flight and the job still has the one result, the status
\* and the timestamp an earlier addResult gave it
C38_Witness ==
    /\ \A c \in Callers : rmw[c] = Idle
    /\ \E id \in DOMAIN store :
          /\ id \in mem.errors
          /\ Len(store[id].results) = 1
          /\ store[id].status = "completed"
(* ---------------- claims: cleanup and the late write -------------------- *)
\* the step is the store.setJSON of an updateJob or addResult under key k
WritesBack(k) ==
    /\ rmw[Updater] # Idle
    /\ rmw[Updater].read
    /\ rmw[Updater].id = k
    /\ rmw'[Updater] = Idle
    /\ k \in DOMAIN store'

\* C39: a job deleted by cleanupOldJobs stays deleted: no updateJob or
\* addResult that read the job before the deletion writes the record back
\* afterwards, so no such write puts a record under a key the store does
\* not hold, under any interleaving of cleanup with these calls.
C39_DeletedStaysDeleted ==
    [][ \A k \in JobIds : WritesBack(k) => k \in DOMAIN store ]_vars
====
